---------------------------- MODULE Spec2Model ----------------------------
(***************************************************************************)
(* Model of the metrics aggregation engine of org-metrics-dashboard        *)
(* (src/metrics/aggregate.py with the dashboard schema of                  *)
(* src/metrics/schema.py).                                                 *)
(*                                                                         *)
(* Python values are tagged pairs <<type, payload>>, so that isinstance    *)
(* tests, None tests and truthiness can be computed the way the code       *)
(* computes them.  Numbers carry their payload in tenths (Scale), the      *)
(* precision of every round(x, 1) of the code: the int 3 is <<"int", 30>>  *)
(* and the float 3.5 is <<"float", 35>>.  A dict's payload is a function   *)
(* from keys to values, a list's payload is a sequence.                    *)
(***************************************************************************)
EXTENDS Integers, Sequences, FiniteSets, TLC

VARIABLES
    arg,          \* harness: the argument handed to the function under check
    fn,           \* harness: the function that has been applied ("none" before)
    ret,          \* harness: what that function returned
    NOW,          \* the module-level NOW of the process: [day, sec]
    raw_dir,      \* data/raw: file name -> content
    history_dir,  \* data/history: day -> content of <date>/dashboard.json
    agg_file,     \* data/aggregated/dashboard.json: its content, or None
    pc,           \* where the run of aggregate() stands
    runs,         \* how many runs of aggregate() have been started
    run_repos,    \* aggregate(): its local repos, the list load_repos returned
    run_data,     \* aggregate(): its local data, the assembled dashboard
    warned,       \* the files load_repos printed a warning for
    persisted,    \* history: the snapshot written last, and the run that wrote it
    before,       \* history: the files and the last snapshot when the run started
    collector     \* collect.main: its position, locals, errors_count and exit status

calcVars == <<arg, fn, ret>>
envVars == <<NOW, raw_dir, history_dir, agg_file>>
runVars == <<pc, runs, run_repos, run_data, warned, persisted, before, collector>>
vars == <<arg, fn, ret, NOW, raw_dir, history_dir, agg_file, pc, runs, run_repos,
          run_data, warned, persisted, before, collector>>

\* The collector before main() is entered: errors_count = 0 (collect.py line 54).
NotCollecting ==
    [pc |-> "idle", repos |-> <<>>, i |-> 0, errors_count |-> 0, gov |-> <<>>,
     written |-> {}, failed |-> {}, exit_status |-> 0]

---------------------------------------------------------------------------
(* Python values *)

Scale == 10

None == <<"null", 0>>
PyInt(i) == <<"int", i * Scale>>
PyFloat(tenths) == <<"float", tenths>>
PyBool(b) == <<"bool", b>>
PyStr(s) == <<"str", s>>
PyDict(f) == <<"dict", f>>
PyList(s) == <<"list", s>>
EmptyDict == PyDict(<<>>)

TypeOf(x) == x[1]
IsDict(x) == TypeOf(x) = "dict"
IsNumber(x) == TypeOf(x) \in {"int", "float", "bool"}

\* The numeric value of a number, in tenths (True is 1, False is 0).
Num(x) ==
    IF TypeOf(x) = "bool" THEN (IF x[2] THEN Scale ELSE 0) ELSE x[2]

\* bool(x)
Truthy(x) ==
    CASE TypeOf(x) = "null" -> FALSE
      [] TypeOf(x) = "bool" -> x[2]
      [] TypeOf(x) \in {"int", "float"} -> x[2] # 0
      [] TypeOf(x) = "str" -> x[2] # ""
      [] TypeOf(x) = "dict" -> DOMAIN x[2] # {}
      [] TypeOf(x) = "list" -> Len(x[2]) > 0

\* d.get(k, default) on a dict d
DictGet(d, k, default) ==
    IF k \in DOMAIN d[2] THEN d[2][k] ELSE default

\* a + b on numbers: an int only when both are ints (bool counts as int)
PyAdd(a, b) ==
    IF TypeOf(a) = "float" \/ TypeOf(b) = "float"
    THEN PyFloat(Num(a) + Num(b))
    ELSE <<"int", Num(a) + Num(b)>>

Map(s, F(_)) == [i \in 1..Len(s) |-> F(s[i])]

RECURSIVE SumSeq(_)
\* sum(values), starting from the int 0
SumSeq(s) == IF s = <<>> THEN PyInt(0) ELSE PyAdd(SumSeq(Tail(s)), Head(s))

\* round(num / den, 1) in tenths, for num >= 0 in tenths and den > 0:
\* the nearest tenth, a tie going to the even one.
RoundDiv(num, den) ==
    LET q == num \div den
        r == num % den
    IN  IF 2 * r < den THEN q
        ELSE IF 2 * r > den THEN q + 1
        ELSE IF q % 2 = 0 THEN q ELSE q + 1

---------------------------------------------------------------------------
(* UTILITIES *)

RECURSIVE safe_get(_, _, _)
safe_get(d, keys, default) ==
    IF keys = <<>>
    THEN (IF d # None THEN d ELSE default)
    ELSE IF IsDict(d)
         THEN safe_get(DictGet(d, Head(keys), default), Tail(keys), default)
         ELSE default

\* safe_avg with zeros and negative values let through.
safe_avg_unfiltered(values) ==
    LET valid == SelectSeq(values, LAMBDA v: v # None)
    IN  IF valid = <<>>
        THEN None
        ELSE PyFloat(RoundDiv(Num(SumSeq(valid)), Len(valid)))

\* safe_avg with 0 where the source returns None.
safe_avg_zero(values) ==
    LET valid == SelectSeq(values, LAMBDA v: v # None /\ Num(v) > 0)
    IN  IF valid = <<>>
        THEN PyFloat(0)
        ELSE PyFloat(RoundDiv(Num(SumSeq(valid)), Len(valid)))

safe_avg(values) ==
    LET valid == SelectSeq(values, LAMBDA v: v # None /\ Num(v) > 0)
    IN  IF valid = <<>>
        THEN None
        ELSE PyFloat(RoundDiv(Num(SumSeq(valid)), Len(valid)))

\* [r for r in repos if not r.get("is_archived")]
\* The aggregators' filter with archived repositories let through.
ActiveAndArchived(repos) == repos

Active(repos) ==
    SelectSeq(repos, LAMBDA r: ~Truthy(DictGet(r, "is_archived", None)))

---------------------------------------------------------------------------
(* AGGREGATION FUNCTIONS *)

\* The positive, non-None values of a list (the second comprehension of
\* each DORA metric).
Positive(values) == SelectSeq(values, LAMBDA v: v # None /\ Num(v) > 0)

\* avg = safe_avg(values); if avg is None: avg = 0
AvgOrZero(values) ==
    LET avg == safe_avg(values) IN IF avg = None THEN PyInt(0) ELSE avg

\* df_cat with its boundaries excluded.
df_cat_strict(avg_rpm) ==
    IF Num(avg_rpm) > 8 * Scale THEN "Elite"
    ELSE IF Num(avg_rpm) > 4 * Scale THEN "High"
    ELSE IF Num(avg_rpm) > 1 * Scale THEN "Medium"
    ELSE "Low"

df_cat(avg_rpm) ==
    IF Num(avg_rpm) >= 8 * Scale THEN "Elite"
    ELSE IF Num(avg_rpm) >= 4 * Scale THEN "High"
    ELSE IF Num(avg_rpm) >= 1 * Scale THEN "Medium"
    ELSE "Low"

lt_cat(avg_lt) ==
    IF Num(avg_lt) < 24 * Scale THEN "Elite"
    ELSE IF Num(avg_lt) < 168 * Scale THEN "High"
    ELSE IF Num(avg_lt) < 720 * Scale THEN "Medium"
    ELSE "Low"

mttr_cat(avg_mttr) ==
    IF Num(avg_mttr) < 1 * Scale THEN "Elite"
    ELSE IF Num(avg_mttr) < 24 * Scale THEN "High"
    ELSE IF Num(avg_mttr) < 168 * Scale THEN "Medium"
    ELSE "Low"

cfr_cat(avg_cfr) ==
    IF Num(avg_cfr) < 5 * Scale THEN "Elite"
    ELSE IF Num(avg_cfr) < 15 * Scale THEN "High"
    ELSE IF Num(avg_cfr) < 30 * Scale THEN "Medium"
    ELSE "Low"

\* cats with Medium weighed like High.
cats_medium_high == [Elite |-> 4, High |-> 3, Medium |-> 3, Low |-> 1]

cats == [Elite |-> 4, High |-> 3, Medium |-> 2, Low |-> 1]

\* overall = round((sum of the four weights) / 4, 1), in tenths
overall(c1, c2, c3, c4) ==
    RoundDiv((cats[c1] + cats[c2] + cats[c3] + cats[c4]) * Scale, 4)

\* overall_cat with Elite from 3.0 on.
overall_cat_lenient(ov) ==
    IF ov >= 30 THEN "Elite"
    ELSE IF ov >= 25 THEN "High"
    ELSE IF ov >= 15 THEN "Medium"
    ELSE "Low"

overall_cat(ov) ==
    IF ov >= 35 THEN "Elite"
    ELSE IF ov >= 25 THEN "High"
    ELSE IF ov >= 15 THEN "Medium"
    ELSE "Low"

DoraEntry(value, category, unit) ==
    PyDict([value |-> value, category |-> PyStr(category), unit |-> PyStr(unit)])

calc_dora(repos) ==
    LET active == Active(repos)
        with_dora == SelectSeq(active, LAMBDA r: Truthy(DictGet(r, "dora", None)))
        Metric(key) ==
            Positive(Map(with_dora, LAMBDA r: safe_get(r, <<"dora", key>>, None)))
        avg_rpm == AvgOrZero(Metric("releases_per_month"))
        avg_lt == AvgOrZero(Metric("lead_time_hours"))
        avg_mttr == AvgOrZero(Metric("mttr_hours"))
        cfr_all == Map(active, LAMBDA r:
                       DictGet(DictGet(r, "dora", EmptyDict), "cfr", PyInt(0)))
        cfr_values == SelectSeq(cfr_all, LAMBDA v: v # None)
        avg_cfr == AvgOrZero(cfr_values)
    IN  PyDict([
            deployment_frequency |->
                DoraEntry(avg_rpm, df_cat(avg_rpm), "releases/month"),
            lead_time |-> DoraEntry(avg_lt, lt_cat(avg_lt), "hours"),
            mttr |-> DoraEntry(avg_mttr, mttr_cat(avg_mttr), "hours"),
            ci_failure_rate |-> DoraEntry(avg_cfr, cfr_cat(avg_cfr), "%"),
            overall |-> PyStr(overall_cat(overall(df_cat(avg_rpm), lt_cat(avg_lt),
                                                  mttr_cat(avg_mttr), cfr_cat(avg_cfr))))
        ])

\* a - b on numbers
PySub(a, b) ==
    IF TypeOf(a) = "float" \/ TypeOf(b) = "float"
    THEN PyFloat(Num(a) - Num(b))
    ELSE <<"int", Num(a) - Num(b)>>

\* round(count / total * 100, 1)
Percent(count, total) == PyFloat(RoundDiv(count * 100 * Scale, total))

\* [d.get(key, default) for d in dicts]
Column(dicts, key, default) == Map(dicts, LAMBDA d: DictGet(d, key, default))

\* The values kept by "if x and x > 0".
TruthyPositive(values) == SelectSeq(values, LAMBDA v: Truthy(v) /\ Num(v) > 0)

\* CountTruthy counting the dicts that hold the key at all.
CountPresent(dicts, key) ==
    Len(SelectSeq(dicts, LAMBDA d: key \in DOMAIN d[2]))

\* len([d for d in dicts if d.get(key, False)])
CountTruthy(dicts, key) ==
    Len(SelectSeq(dicts, LAMBDA d: Truthy(DictGet(d, key, PyBool(FALSE)))))

calc_flow(repos) ==
    LET active == Active(repos)
        prs == Column(active, "pr", EmptyDict)
        review_times == TruthyPositive(Column(prs, "review_time_hours", PyInt(0)))
        cycle_times == TruthyPositive(Column(prs, "cycle_time_hours", PyInt(0)))
    IN  PyDict([
            review_time_avg |-> safe_avg(review_times),
            cycle_time_avg |-> safe_avg(cycle_times),
            total_wip |-> SumSeq(Column(prs, "wip", PyInt(0))),
            total_throughput |-> SumSeq(Column(prs, "throughput", PyInt(0)))
        ])

\* calc_ci with the repositories without CI let through.
calc_ci_unrestricted(repos) ==
    LET active == Active(repos)
        with_ci == active
        cis == Column(with_ci, "ci", EmptyDict)
        success_rates == TruthyPositive(Column(cis, "success_rate", PyInt(0)))
        durations == TruthyPositive(Column(cis, "duration_mins", PyInt(0)))
        total_runs == SumSeq(Column(cis, "runs_30d", PyInt(0)))
        avg_sr == AvgOrZero(success_rates)
        adoption == IF Len(active) > 0 THEN Percent(Len(with_ci), Len(active))
                    ELSE PyInt(0)
    IN  PyDict([
            adoption |-> adoption,
            success_rate |-> avg_sr,
            failure_rate |-> IF avg_sr # None THEN PySub(PyInt(100), avg_sr) ELSE None,
            avg_duration |-> safe_avg(durations),
            total_runs |-> total_runs
        ])

\* calc_ci that leaves the success rate None when no repository reports one.
calc_ci_unknown_rate(repos) ==
    LET active == Active(repos)
        with_ci == SelectSeq(active, LAMBDA r:
                       Truthy(DictGet(DictGet(r, "ci", EmptyDict), "has_ci", PyBool(FALSE))))
        cis == Column(with_ci, "ci", EmptyDict)
        success_rates == TruthyPositive(Column(cis, "success_rate", PyInt(0)))
        durations == TruthyPositive(Column(cis, "duration_mins", PyInt(0)))
        total_runs == SumSeq(Column(cis, "runs_30d", PyInt(0)))
        avg_sr == safe_avg(success_rates)
        adoption == IF Len(active) > 0 THEN Percent(Len(with_ci), Len(active))
                    ELSE PyInt(0)
    IN  PyDict([
            adoption |-> adoption,
            success_rate |-> avg_sr,
            failure_rate |-> IF avg_sr # None THEN PySub(PyInt(100), avg_sr) ELSE None,
            avg_duration |-> safe_avg(durations),
            total_runs |-> total_runs
        ])

calc_ci(repos) ==
    LET active == Active(repos)
        with_ci == SelectSeq(active, LAMBDA r:
                       Truthy(DictGet(DictGet(r, "ci", EmptyDict), "has_ci", PyBool(FALSE))))
        cis == Column(with_ci, "ci", EmptyDict)
        success_rates == TruthyPositive(Column(cis, "success_rate", PyInt(0)))
        durations == TruthyPositive(Column(cis, "duration_mins", PyInt(0)))
        total_runs == SumSeq(Column(cis, "runs_30d", PyInt(0)))
        avg_sr == AvgOrZero(success_rates)
        adoption == IF Len(active) > 0 THEN Percent(Len(with_ci), Len(active))
                    ELSE PyInt(0)
    IN  PyDict([
            adoption |-> adoption,
            success_rate |-> avg_sr,
            \* round(100 - avg_sr, 1): avg_sr has one decimal already, and
            \* round() of an int is that int
            failure_rate |-> IF avg_sr # None THEN PySub(PyInt(100), avg_sr) ELSE None,
            avg_duration |-> safe_avg(durations),
            total_runs |-> total_runs
        ])

\* A history file that json.load reads: the model keeps a parsed value for
\* it, and Corrupt for a file that cannot be read or parsed.
Corrupt == <<"corrupt", 0>>

\* load_previous_snapshot with the files sorted oldest first.
load_oldest_snapshot(history) ==
    LET ok == {d \in DOMAIN history : history[d] # Corrupt}
    IN  IF ok = {} THEN None
        ELSE history[CHOOSE d \in ok : \A e \in ok : d <= e]

\* The newest history file that loads, or None.
load_previous_snapshot(history) ==
    LET ok == {d \in DOMAIN history : history[d] # Corrupt}
    IN  IF ok = {} THEN None
        ELSE history[CHOOSE d \in ok : \A e \in ok : e <= d]

\* The trend of calc_security; an exception inside the try block (a
\* snapshot, or a section of it, that is no dict) leaves it None.
vuln_trend(total_vulns, prev_snapshot) ==
    IF ~Truthy(prev_snapshot) THEN None
    ELSE IF ~IsDict(prev_snapshot) THEN None
    ELSE LET sec == DictGet(prev_snapshot, "security", EmptyDict)
         IN  IF ~IsDict(sec) THEN None
             ELSE LET prev_total == DictGet(sec, "total_vulns", PyInt(0))
                  IN  IF ~IsNumber(prev_total) THEN None
                      ELSE IF Num(total_vulns) - Num(prev_total) < 0
                           THEN PyStr("Improving")
                      ELSE IF Num(total_vulns) - Num(prev_total) > 0
                           THEN PyStr("Worsening")
                      ELSE PyStr("Stable")

\* calc_security with a total that leaves the low-severity count out.
calc_security_without_low(repos, history) ==
    LET active == Active(repos)
        total == IF Len(active) # 0 THEN Len(active) ELSE 1
        secs == Column(active, "security", EmptyDict)
        Total(key) == SumSeq(Column(secs, key, PyInt(0)))
        crit == Total("critical")
        high == Total("high")
        med == Total("medium")
        low == Total("low")
        mttr_values == SelectSeq(Column(secs, "security_mttr_hours", None),
                                 LAMBDA v: v # None)
        total_vulns == PyAdd(PyAdd(crit, high), med)
        sla_pass == Len(SelectSeq(secs, LAMBDA sec:
                            Num(DictGet(sec, "critical", PyInt(0))) = 0))
    IN  PyDict([
            critical_vulns |-> crit,
            high_vulns |-> high,
            medium_vulns |-> med,
            low_vulns |-> low,
            total_vulns |-> total_vulns,
            vuln_trend |-> vuln_trend(total_vulns, load_previous_snapshot(history)),
            security_mttr |-> safe_avg(mttr_values),
            sla_compliance |-> Percent(sla_pass, total),
            secrets_exposed |-> Total("secrets"),
            dependency_risk |-> Total("dependency_alerts"),
            gate_pass_rate |-> Percent(CountTruthy(secs, "gate_pass"), total),
            code_issues |-> Total("code_alerts"),
            branch_protection |-> Percent(CountTruthy(secs, "branch_protection"), total),
            dependabot_adoption |-> Percent(CountTruthy(secs, "dependabot"), total),
            secret_scanning |-> Percent(CountTruthy(secs, "secret_scanning"), total),
            code_scanning |-> Percent(CountTruthy(secs, "code_scanning"), total),
            security_policy |-> Percent(CountTruthy(secs, "security_policy"), total),
            license_compliance |-> Percent(CountTruthy(secs, "license"), total)
        ])

calc_security(repos, history) ==
    LET active == Active(repos)
        total == IF Len(active) # 0 THEN Len(active) ELSE 1
        secs == Column(active, "security", EmptyDict)
        Total(key) == SumSeq(Column(secs, key, PyInt(0)))
        crit == Total("critical")
        high == Total("high")
        med == Total("medium")
        low == Total("low")
        mttr_values == SelectSeq(Column(secs, "security_mttr_hours", None),
                                 LAMBDA v: v # None)
        total_vulns == PyAdd(PyAdd(PyAdd(crit, high), med), low)
        sla_pass == Len(SelectSeq(secs, LAMBDA sec:
                            Num(DictGet(sec, "critical", PyInt(0))) = 0))
    IN  PyDict([
            critical_vulns |-> crit,
            high_vulns |-> high,
            medium_vulns |-> med,
            low_vulns |-> low,
            total_vulns |-> total_vulns,
            vuln_trend |-> vuln_trend(total_vulns, load_previous_snapshot(history)),
            security_mttr |-> safe_avg(mttr_values),
            sla_compliance |-> Percent(sla_pass, total),
            secrets_exposed |-> Total("secrets"),
            dependency_risk |-> Total("dependency_alerts"),
            gate_pass_rate |-> Percent(CountTruthy(secs, "gate_pass"), total),
            code_issues |-> Total("code_alerts"),
            branch_protection |-> Percent(CountTruthy(secs, "branch_protection"), total),
            dependabot_adoption |-> Percent(CountTruthy(secs, "dependabot"), total),
            secret_scanning |-> Percent(CountTruthy(secs, "secret_scanning"), total),
            code_scanning |-> Percent(CountTruthy(secs, "code_scanning"), total),
            security_policy |-> Percent(CountTruthy(secs, "security_policy"), total),
            license_compliance |-> Percent(CountTruthy(secs, "license"), total)
        ])

calc_issues(repos) ==
    LET issues == Column(Active(repos), "issues", EmptyDict)
    IN  PyDict([
            open_count |-> SumSeq(Column(issues, "open", PyInt(0))),
            closed_30d |-> SumSeq(Column(issues, "closed_30d", PyInt(0))),
            bug_count |-> SumSeq(Column(issues, "bugs", PyInt(0)))
        ])

\* The tier the loop of calc_governance gives one repository: a missing
\* gate_pass counts as passed.
\* governance_risk with the high-severity test ahead of the critical one.
governance_risk_high_first(r) ==
    LET sec == DictGet(r, "security", EmptyDict)
        crit == DictGet(sec, "critical", PyInt(0))
        high == DictGet(sec, "high", PyInt(0))
        secrets == DictGet(sec, "secrets", PyInt(0))
        gate == DictGet(sec, "gate_pass", PyBool(TRUE))
    IN  IF Num(high) > 0 THEN "High"
        ELSE IF Num(crit) > 0 \/ Num(secrets) > 0 \/ ~Truthy(gate) THEN "Critical"
        ELSE IF Num(DictGet(sec, "medium", PyInt(0))) > 0 THEN "Medium"
        ELSE "Low"

governance_risk(r) ==
    LET sec == DictGet(r, "security", EmptyDict)
        crit == DictGet(sec, "critical", PyInt(0))
        high == DictGet(sec, "high", PyInt(0))
        secrets == DictGet(sec, "secrets", PyInt(0))
        gate == DictGet(sec, "gate_pass", PyBool(TRUE))
    IN  IF Num(crit) > 0 \/ Num(secrets) > 0 \/ ~Truthy(gate) THEN "Critical"
        ELSE IF Num(high) > 0 THEN "High"
        ELSE IF Num(DictGet(sec, "medium", PyInt(0))) > 0 THEN "Medium"
        ELSE "Low"

\* calc_governance that reports every repository as scanned.
calc_governance_all_scanned(repos) ==
    LET total == Len(repos)
        archived == Len(SelectSeq(repos, LAMBDA r: Truthy(DictGet(r, "is_archived", None))))
        forked == Len(SelectSeq(repos, LAMBDA r: Truthy(DictGet(r, "is_fork", None))))
        active == Active(repos)
        Risk(tier) == Len(SelectSeq(active, LAMBDA r: governance_risk(r) = tier))
    IN  PyDict([
            total_repos |-> PyInt(total),
            scanned_repos |-> PyInt(total),
            scan_coverage |-> IF total # 0 THEN Percent(total, total) ELSE PyInt(0),
            archived_repos |-> PyInt(archived),
            forked_repos |-> PyInt(forked),
            risk_critical |-> PyInt(Risk("Critical")),
            risk_high |-> PyInt(Risk("High")),
            risk_medium |-> PyInt(Risk("Medium")),
            risk_low |-> PyInt(Risk("Low"))
        ])

calc_governance(repos) ==
    LET total == Len(repos)
        archived == Len(SelectSeq(repos, LAMBDA r: Truthy(DictGet(r, "is_archived", None))))
        forked == Len(SelectSeq(repos, LAMBDA r: Truthy(DictGet(r, "is_fork", None))))
        active == Active(repos)
        Risk(tier) == Len(SelectSeq(active, LAMBDA r: governance_risk(r) = tier))
    IN  PyDict([
            total_repos |-> PyInt(total),
            scanned_repos |-> PyInt(Len(active)),
            scan_coverage |-> IF total # 0 THEN Percent(Len(active), total) ELSE PyInt(0),
            archived_repos |-> PyInt(archived),
            forked_repos |-> PyInt(forked),
            risk_critical |-> PyInt(Risk("Critical")),
            risk_high |-> PyInt(Risk("High")),
            risk_medium |-> PyInt(Risk("Medium")),
            risk_low |-> PyInt(Risk("Low"))
        ])

\* sorted(s, key=...): the stable sort of s by the strict order Lt of its keys.
SortBy(s, Lt(_, _)) ==
    LET n == Len(s)
        Pos(i) == Cardinality({j \in 1..n :
                      Lt(s[j], s[i]) \/ (~Lt(s[i], s[j]) /\ j < i)}) + 1
    IN  [p \in 1..n |-> s[CHOOSE i \in 1..n : Pos(i) = p]]

\* The elements of s, each once, in the order of their first appearance
\* (the key order of a dict filled while iterating over s).
FirstSeen(s) ==
    LET keep == {i \in 1..Len(s) : \A j \in 1..(i - 1) : s[j] # s[i]}
        Nth(p) == CHOOSE i \in keep : Cardinality({j \in keep : j < i}) = p - 1
    IN  [p \in 1..Cardinality(keep) |-> s[Nth(p)]]

\* s[:n]
Take(s, n) == IF Len(s) <= n THEN s ELSE SubSeq(s, 1, n)

build_languages(repos) ==
    LET langs == SelectSeq(Column(repos, "language", None), Truthy)
        Count(lang) == Cardinality({i \in 1..Len(langs) : langs[i] = lang})
        items == SortBy(FirstSeen(langs), LAMBDA x, y: -Count(x) < -Count(y))
    IN  PyList(Map(items, LAMBDA lang:
                   PyDict([name |-> lang, count |-> PyInt(Count(lang))])))

\* The (login, commits, repository name) entries in the order the loops of
\* build_contributors visit them.
RECURSIVE TopAuthors(_)
TopAuthors(repos) ==
    IF repos = <<>> THEN <<>>
    ELSE LET r == Head(repos)
             top == DictGet(DictGet(r, "commits", EmptyDict), "top", PyList(<<>>))
         IN  Map(top[2], LAMBDA c:
                 [login |-> DictGet(c, "login", PyStr("unknown")),
                  commits |-> DictGet(c, "commits", PyInt(0)),
                  repo |-> DictGet(r, "name", PyStr(""))])
             \o TopAuthors(Tail(repos))

build_contributors(repos) ==
    LET entries == TopAuthors(repos)
        logins == FirstSeen(Map(entries, LAMBDA e: e.login))
        Of(login) == SelectSeq(entries, LAMBDA e: e.login = login)
        Commits(login) == SumSeq(Map(Of(login), LAMBDA e: e.commits))
        Repos(login) == {e.repo : e \in {Of(login)[i] : i \in 1..Len(Of(login))}}
        result == Map(logins, LAMBDA login:
                      PyDict([login |-> login,
                              commits |-> Commits(login),
                              repo_count |-> PyInt(Cardinality(Repos(login)))]))
    IN  PyList(Take(SortBy(result, LAMBDA x, y:
                        -Num(x[2].commits) < -Num(y[2].commits)), 20))

\* datetime.fromisoformat(s.replace("Z", "+00:00")) on the timestamps of the
\* input sets: an aware or a naive datetime at midnight of a day (days
\* counted from 2026-01-01), or a ValueError.
FromIso(s) ==
    CASE s = "2026-07-20T00:00:00Z" -> <<"aware", 200>>
      [] s = "2026-06-20T00:00:00Z" -> <<"aware", 170>>
      [] s = "2026-06-19T00:00:00Z" -> <<"aware", 169>>
      [] s = "2026-01-21T00:00:00+00:00" -> <<"aware", 20>>
      [] s = "2026-01-20T00:00:00Z" -> <<"aware", 19>>
      [] s = "2026-01-20T00:00:00" -> <<"naive", 19>>
      [] OTHER -> <<"ValueError", 0>>

\* The status of a row.  NOW is aware: subtracting a naive datetime raises
\* TypeError, which leaves the status Active as ValueError does.
\* updated = r.get("updated_at", r.get("pushed_at", ""))
Updated(r) == DictGet(r, "updated_at", DictGet(r, "pushed_at", PyStr("")))

\* updated.replace(...) on a value that is no str raises AttributeError,
\* which the except clause does not catch.
RowStatus(r, updated, now) ==
    IF Truthy(DictGet(r, "is_archived", None)) THEN "Archived"
    ELSE IF ~Truthy(updated) THEN "Active"
    ELSE IF TypeOf(updated) # "str" THEN "AttributeError"
    ELSE LET t == FromIso(updated[2])
             days == now.day - t[2]
         IN  IF t[1] # "aware" THEN "Active"
             ELSE IF days > 180 THEN "Inactive"
             ELSE IF days > 30 THEN "Stale"
             ELSE "Active"

status_colors ==
    [Active |-> "active", Stale |-> "stale", Inactive |-> "inactive",
     Archived |-> "inactive"]

\* The tier build_repo_table gives one repository: a missing gate_pass
\* counts as failed.
table_risk(r) ==
    LET sec == DictGet(r, "security", EmptyDict)
        crit == DictGet(sec, "critical", PyInt(0))
        high == DictGet(sec, "high", PyInt(0))
        secrets == DictGet(sec, "secrets", PyInt(0))
        gate == DictGet(sec, "gate_pass", PyBool(FALSE))
    IN  IF Num(crit) > 0 \/ Num(secrets) > 0 \/ ~Truthy(gate) THEN "Critical"
        ELSE IF Num(high) > 0 THEN "High"
        ELSE IF Num(DictGet(sec, "medium", PyInt(0))) > 0 THEN "Medium"
        ELSE "Low"

\* One row of build_repo_table.
repo_row(r, now) ==
    LET dora == DictGet(r, "dora", EmptyDict)
        pr == DictGet(r, "pr", EmptyDict)
        issues == DictGet(r, "issues", EmptyDict)
        sec == DictGet(r, "security", EmptyDict)
        ci == DictGet(r, "ci", EmptyDict)
        updated == Updated(r)
        status == RowStatus(r, updated, now)
        description == DictGet(r, "description", PyStr(""))
    IN  PyDict([
            name |-> DictGet(r, "name", PyStr("Unknown")),
            full_name |-> DictGet(r, "full_name", PyStr("")),
            url |-> DictGet(r, "url", PyStr("#")),
            description |-> IF Truthy(description) THEN description ELSE PyStr(""),
            language |-> DictGet(r, "language", None),
            updated_at |-> updated,
            status |-> PyStr(status),
            status_color |-> PyStr(status_colors[status]),
            health_score |-> DictGet(r, "health_score", PyInt(50)),
            security_score |-> DictGet(sec, "score", PyInt(50)),
            risk_level |-> PyStr(table_risk(r)),
            deploy_freq |-> DictGet(dora, "deployment_freq", PyStr("Low")),
            releases_month |-> DictGet(dora, "releases_per_month", PyInt(0)),
            lead_time_hours |-> DictGet(dora, "lead_time_hours", PyInt(0)),
            mttr_hours |-> DictGet(dora, "mttr_hours", PyInt(0)),
            cfr |-> DictGet(dora, "cfr", PyInt(0)),
            review_time |-> DictGet(pr, "review_time_hours", PyInt(0)),
            cycle_time |-> DictGet(pr, "cycle_time_hours", PyInt(0)),
            wip |-> DictGet(pr, "wip", PyInt(0)),
            throughput |-> DictGet(pr, "throughput", PyInt(0)),
            has_ci |-> DictGet(ci, "has_ci", PyBool(FALSE)),
            ci_success |-> DictGet(ci, "success_rate", PyInt(0)),
            ci_failure |-> DictGet(ci, "failure_rate", PyInt(0)),
            pipeline_mins |-> DictGet(ci, "duration_mins", PyInt(0)),
            critical_vulns |-> DictGet(sec, "critical", PyInt(0)),
            high_vulns |-> DictGet(sec, "high", PyInt(0)),
            total_vulns |-> DictGet(sec, "total_vulns", PyInt(0)),
            secrets |-> DictGet(sec, "secrets", PyInt(0)),
            code_alerts |-> DictGet(sec, "code_alerts", PyInt(0)),
            dependency_alerts |-> DictGet(sec, "dependency_alerts", PyInt(0)),
            branch_prot |-> DictGet(sec, "branch_protection", PyBool(FALSE)),
            dependabot |-> DictGet(sec, "dependabot", PyBool(FALSE)),
            gate_pass |-> DictGet(sec, "gate_pass", PyBool(FALSE)),
            commits_30d |-> DictGet(DictGet(r, "commits", EmptyDict), "count_30d", PyInt(0)),
            open_prs |-> DictGet(pr, "open", PyInt(0)),
            open_issues |-> DictGet(issues, "open", PyInt(0)),
            stars |-> DictGet(r, "stars", PyInt(0)),
            forks |-> DictGet(r, "forks", PyInt(0))
        ])

\* The order of str on the repository names of the input sets.
NameOrder == <<"", "Unknown", "a", "b", "c">>
StrLt(x, y) ==
    LET Rank(z) == CHOOSE i \in 1..Len(NameOrder) : NameOrder[i] = z
    IN  Rank(x) < Rank(y)

\* risk_order with the tiers the other way round.
risk_order_reversed == [Critical |-> 3, High |-> 2, Medium |-> 1, Low |-> 0]

risk_order == [Critical |-> 0, High |-> 1, Medium |-> 2, Low |-> 3]

\* What a call that raised leaves in place of a result.
AttributeError == <<"AttributeError", 0>>

build_repo_table(repos, now) ==
    LET rows == Map(repos, LAMBDA r: repo_row(r, now))
        Risk(x) == risk_order[x[2].risk_level[2]]
    IN  IF \E i \in 1..Len(repos) :
               RowStatus(repos[i], Updated(repos[i]), now) = "AttributeError"
        THEN AttributeError
        ELSE PyList(SortBy(rows, LAMBDA x, y:
                        \/ Risk(x) < Risk(y)
                        \/ Risk(x) = Risk(y) /\ StrLt(x[2].name[2], y[2].name[2])))

---------------------------------------------------------------------------
(* SCHEMA (src/metrics/schema.py) *)

\* A schema is the sequence of its (key, expected type) entries in the order
\* of the dict literal.  An expected type is a tuple of type names (a single
\* type is a tuple of one), the bare list marker, or a nested schema.
Types(names) == [kind |-> "types", names |-> names]
TList == [kind |-> "list"]
NestedSchema(schema) == [kind |-> "schema", schema |-> schema]

TStr == Types(<<"str">>)
TInt == Types(<<"int">>)
TBool == Types(<<"bool">>)
TDict == Types(<<"dict">>)
TNumber == Types(<<"int", "float">>)
TStrOrNone == Types(<<"str", "NoneType">>)
TNumberOrNone == Types(<<"int", "float", "NoneType">>)

RAW_REPO_REQUIRED_FIELDS ==
    << <<"name", TStr>>, <<"full_name", TStr>>, <<"url", TStr>>,
       <<"description", TStrOrNone>>, <<"language", TStrOrNone>>,
       <<"is_archived", TBool>>, <<"is_fork", TBool>>, <<"is_private", TBool>>,
       <<"created_at", TStr>>, <<"updated_at", TStr>>, <<"pushed_at", TStr>>,
       <<"stars", TInt>>, <<"forks", TInt>>, <<"health_score", TInt>>,
       <<"collected_at", TStr>> >>

RAW_REPO_NESTED_SCHEMAS ==
    <<
       <<"dora",
        << <<"deployment_freq", TStr>>, <<"releases_per_month", TNumber>>,
           <<"lead_time_hours", TNumber>>, <<"lead_time_days", TNumber>>,
           <<"mttr_hours", TNumber>>, <<"cfr", TNumber>>,
           <<"cfr_category", TStr>> >>>>,
       <<"flow",
        << <<"review_time", TNumber>>, <<"cycle_time", TNumber>>,
           <<"wip", TInt>>, <<"throughput", TInt>> >>>>,
       <<"pr",
        << <<"total", TInt>>, <<"open", TInt>>, <<"merged_30d", TInt>>,
           <<"throughput", TInt>>, <<"wip", TInt>>, <<"stale", TInt>>,
           <<"lead_time_hours", TNumber>>, <<"lead_time_days", TNumber>>,
           <<"review_time_hours", TNumber>>, <<"cycle_time_hours", TNumber>>,
           <<"merge_rate", TNumber>>, <<"truncated", TBool>> >>>>,
       <<"issues",
        << <<"total", TInt>>, <<"open", TInt>>, <<"closed_30d", TInt>>,
           <<"mttr_hours", TNumber>>, <<"bugs", TInt>>, <<"critical", TInt>>,
           <<"security", TInt>>, <<"stale", TInt>>, <<"truncated", TBool>> >>>>,
       <<"ci",
        << <<"has_ci", TBool>>, <<"workflows", TInt>>, <<"runs_30d", TInt>>,
           <<"success_rate", TNumber>>, <<"failure_rate", TNumber>>,
           <<"duration_mins", TNumber>>, <<"ci_failure_rate", TNumber>>,
           <<"truncated", TBool>> >>>>,
       <<"security",
        << <<"score", TInt>>, <<"critical", TInt>>, <<"high", TInt>>,
           <<"medium", TInt>>, <<"low", TInt>>, <<"total_vulns", TInt>>,
           <<"secrets", TInt>>, <<"dependency_alerts", TInt>>,
           <<"code_alerts", TInt>>, <<"security_policy", TBool>>,
           <<"branch_protection", TBool>>, <<"dependabot", TBool>>,
           <<"secret_scanning", TBool>>, <<"code_scanning", TBool>>,
           <<"gate_pass", TBool>>, <<"license", TStrOrNone>>,
           <<"security_mttr_hours", TNumberOrNone>>,
           <<"dependabot_truncated", TBool>>,
           <<"code_scanning_truncated", TBool>>,
           <<"secret_scanning_truncated", TBool>>,
           <<"available_dependabot", TBool>>,
           <<"available_code_scanning", TBool>>,
           <<"available_secret_scanning", TBool>>, <<"errors", TList>> >>>>,
       <<"commits",
        << <<"count_30d", TInt>>, <<"authors", TInt>>, <<"top", TList>> >>>>,
       <<"risk",
        << <<"score", TInt>>, <<"level", TStr>>, <<"factors", TList>> >>>>
    >>

AGGREGATED_DASHBOARD_REQUIRED_FIELDS ==
    << <<"org_name", TStr>>, <<"generated_at", TStr>>, <<"run_id", TStr>>,
       <<"repos", TList>>, <<"dora", TDict>>, <<"flow", TDict>>, <<"ci", TDict>>,
       <<"security", TDict>>, <<"issues", TDict>>, <<"governance", TDict>>,
       <<"languages", TList>>, <<"contributors", TList>> >>

AGGREGATED_DASHBOARD_NESTED_SCHEMAS ==
    <<
       <<"dora",
        << <<"deployment_frequency", TDict>>, <<"lead_time", TDict>>,
           <<"mttr", TDict>>, <<"ci_failure_rate", TDict>>, <<"overall", TStr>> >>>>,
       <<"flow",
        << <<"review_time_avg", TNumberOrNone>>,
           <<"cycle_time_avg", TNumberOrNone>>, <<"total_wip", TInt>>,
           <<"total_throughput", TInt>> >>>>,
       <<"ci",
        << <<"adoption", TNumber>>, <<"success_rate", TNumber>>,
           <<"failure_rate", TNumberOrNone>>, <<"avg_duration", TNumberOrNone>>,
           <<"total_runs", TInt>> >>>>,
       <<"security",
        << <<"critical_vulns", TInt>>, <<"high_vulns", TInt>>,
           <<"medium_vulns", TInt>>, <<"low_vulns", TInt>>,
           <<"total_vulns", TInt>>, <<"vuln_trend", TStrOrNone>>,
           <<"security_mttr", TNumberOrNone>>, <<"sla_compliance", TNumber>>,
           <<"secrets_exposed", TInt>>, <<"dependency_risk", TInt>>,
           <<"code_issues", TInt>>, <<"gate_pass_rate", TNumber>>,
           <<"branch_protection", TNumber>>, <<"dependabot_adoption", TNumber>>,
           <<"secret_scanning", TNumber>>, <<"code_scanning", TNumber>>,
           <<"security_policy", TNumber>>, <<"license_compliance", TNumber>> >>>>,
       <<"issues",
        << <<"open_count", TInt>>, <<"closed_30d", TInt>>, <<"bug_count", TInt>> >>>>,
       <<"governance",
        << <<"total_repos", TInt>>, <<"scanned_repos", TInt>>,
           <<"scan_coverage", TNumber>>, <<"archived_repos", TInt>>,
           <<"forked_repos", TInt>>, <<"risk_critical", TInt>>,
           <<"risk_high", TInt>>, <<"risk_medium", TInt>>, <<"risk_low", TInt>> >>>>
    >>

\* type(value).__name__
TypeName(x) == IF TypeOf(x) = "null" THEN "NoneType" ELSE TypeOf(x)

\* isinstance(value, t) for one type name: bool is a subclass of int.
IsInstance(value, t) ==
    \/ TypeName(value) = t
    \/ t = "int" /\ TypeName(value) = "bool"

\* validate_type letting None pass for every type.
validate_type_or_null(value, expected_types) ==
    \/ value = None
    \/ \E i \in 1..Len(expected_types) : IsInstance(value, expected_types[i])

validate_type(value, expected_types) ==
    \E i \in 1..Len(expected_types) : IsInstance(value, expected_types[i])

\* An error message "<path>: <problem>": the path is the sequence of its
\* dotted parts, the problem a tuple of the parts of its text.
Missing(path) == <<path, <<"missing required field">> >>
Expected(path, names, value) == <<path, <<"expected", names, "got", TypeName(value)>> >>

RECURSIVE SchemaErrors(_, _, _)
\* The errors validate_dict_schema collects for the entries of schema.
SchemaErrors(data, schema, path) ==
    IF ~IsDict(data) THEN << Expected(path, <<"dict">>, data) >>
    ELSE IF schema = <<>> THEN <<>>
    ELSE LET key == Head(schema)[1]
             expected_type == Head(schema)[2]
             here == Append(path, key)
             value == data[2][key]
             errors ==
                 IF key \notin DOMAIN data[2] THEN << Missing(here) >>
                 ELSE IF expected_type.kind = "schema"
                      THEN IF IsDict(value)
                           THEN SchemaErrors(value, expected_type.schema, here)
                           ELSE << Expected(here, <<"dict">>, value) >>
                 ELSE IF expected_type.kind = "list"
                      THEN IF TypeOf(value) # "list"
                           THEN << Expected(here, <<"list">>, value) >> ELSE <<>>
                 ELSE IF ~validate_type(value, expected_type.names)
                      THEN << Expected(here, expected_type.names, value) >>
                 ELSE <<>>
         IN  errors \o SchemaErrors(data, Tail(schema), path)

\* validate_dict_schema that stops at the first violation.
validate_dict_schema_first_only(data, schema, path) ==
    LET errors == SchemaErrors(data, schema, path)
    IN  <<Len(errors) = 0, IF errors = <<>> THEN <<>> ELSE <<Head(errors)>> >>

\* validate_dict_schema returns (len(errors) == 0, errors)
validate_dict_schema(data, schema, path) ==
    LET errors == SchemaErrors(data, schema, path)
    IN  <<Len(errors) = 0, errors>>

RECURSIVE SectionErrors(_, _, _)
\* The errors of the nested sections that the record contains.
SectionErrors(data, sections, root) ==
    IF sections = <<>> THEN <<>>
    ELSE LET section == Head(sections)[1]
             schema == Head(sections)[2]
             errors == IF IsDict(data) /\ section \in DOMAIN data[2]
                       THEN validate_dict_schema(data[2][section], schema,
                                                 <<root, section>>)[2]
                       ELSE <<>>
         IN  errors \o SectionErrors(data, Tail(sections), root)

\* validate_raw_repo that takes every nested section as a required field.
validate_raw_repo_sections_required(data) ==
    LET Required(i) == <<RAW_REPO_NESTED_SCHEMAS[i][1], TDict>>
        errors == validate_dict_schema(
                      data,
                      RAW_REPO_REQUIRED_FIELDS
                          \o [i \in 1..Len(RAW_REPO_NESTED_SCHEMAS) |-> Required(i)],
                      <<"repo">>)[2]
                  \o SectionErrors(data, RAW_REPO_NESTED_SCHEMAS, "repo")
    IN  <<Len(errors) = 0, errors>>

validate_raw_repo(data) ==
    LET errors == validate_dict_schema(data, RAW_REPO_REQUIRED_FIELDS, <<"repo">>)[2]
                  \o SectionErrors(data, RAW_REPO_NESTED_SCHEMAS, "repo")
    IN  <<Len(errors) = 0, errors>>

validate_aggregated_dashboard(data) ==
    LET errors == validate_dict_schema(data, AGGREGATED_DASHBOARD_REQUIRED_FIELDS,
                                       <<"dashboard">>)[2]
                  \o SectionErrors(data, AGGREGATED_DASHBOARD_NESTED_SCHEMAS, "dashboard")
    IN  <<Len(errors) = 0, errors>>

\* assert_raw_repo and assert_aggregated_dashboard: None when the record is
\* valid, and the raised ValueError with its label and errors otherwise.
\* assert_raw_repo whose message holds the first violation only.
assert_raw_repo_first_only(data, repo_name) ==
    LET res == validate_raw_repo(data)
    IN  IF res[1] THEN None ELSE <<"ValueError", <<"repo", repo_name>>, <<Head(res[2])>> >>

\* assert_raw_repo that lets every record pass.
assert_raw_repo_never(data, repo_name) == None

assert_raw_repo(data, repo_name) ==
    LET res == validate_raw_repo(data)
    IN  IF res[1] THEN None ELSE <<"ValueError", <<"repo", repo_name>>, res[2]>>

assert_aggregated_dashboard(data) ==
    LET res == validate_aggregated_dashboard(data)
    IN  IF res[1] THEN None ELSE <<"ValueError", <<"aggregated dashboard">>, res[2]>>

---------------------------------------------------------------------------
(* COLLECTION (src/metrics/collect.py): get_paginated *)

MAX_PAGES == 5
ITEMS_PER_PAGE == 100

\* The page of a result set of total items that the server answers a
\* request for page number page with: items are numbered from 1.
PageOf(total, page) ==
    LET first == (page - 1) * ITEMS_PER_PAGE
        last == IF page * ITEMS_PER_PAGE < total THEN page * ITEMS_PER_PAGE ELSE total
    IN  [i \in 1..(IF last > first THEN last - first ELSE 0) |-> first + i]

\* first_error once an error of this text was met.
FirstError(first_error, text) == IF first_error = None THEN PyStr(text) ELSE first_error

\* The statement after the loop: was_truncated from the number of results.
AfterLoop(results, max_pages, first_error) ==
    <<results, Len(results) >= (max_pages - 1) * ITEMS_PER_PAGE, first_error>>

RECURSIVE FetchPages(_, _, _, _)
\* The loop of get_paginated from page on: server.status[page] is the
\* status the request for that page is answered with, "error" a request
\* that raises.
FetchPages(server, max_pages, page, acc) ==
    IF page > max_pages THEN AfterLoop(acc.results, max_pages, acc.first_error)
    ELSE LET status == server.status[page]
             data == PageOf(server.total, page)
         IN  CASE status = "error" ->
                      AfterLoop(acc.results, max_pages,
                                FirstError(acc.first_error, "Network error"))
               [] status = "200" ->
                      IF data = <<>>
                      THEN <<acc.results, FALSE, acc.first_error>>
                      ELSE FetchPages(server, max_pages, page + 1,
                                      [acc EXCEPT !.results = @ \o data])
               [] status \in {"403", "404"} ->
                      <<acc.results, Len(acc.results) > 0,
                        FirstError(acc.first_error,
                                   IF status = "403"
                                   THEN "403 Forbidden (insufficient permissions)"
                                   ELSE "404 Not Found")>>
               [] OTHER ->
                      FetchPages(server, max_pages, page + 1,
                                 [acc EXCEPT !.first_error =
                                      FirstError(@, "HTTP " \o status)])

\* get_paginated returns (items, was_truncated, error_reason).
get_paginated(server, max_pages) ==
    FetchPages(server, max_pages, 1, [results |-> <<>>, first_error |-> None])

---------------------------------------------------------------------------
(* Inputs of the function harness *)

MaxRepos == 2

\* A dict with one optional key: absent, or present with one of the values.
Opt(k, values) == {<<>>} \cup {k :> v : v \in values}

\* Values on both sides of every threshold of calc_dora, with None and 0.
RpmVals == {None, PyInt(0), PyFloat(9), PyInt(1), PyFloat(39), PyInt(4),
            PyFloat(79), PyInt(8)}
LtVals == {None, PyInt(0), PyFloat(239), PyInt(24), PyFloat(1679), PyInt(168),
           PyFloat(7199), PyInt(720)}
MttrVals == {None, PyInt(0), PyFloat(9), PyInt(1), PyFloat(239), PyInt(24),
             PyFloat(1679), PyInt(168)}
CfrVals == {None, PyInt(0), PyFloat(49), PyInt(5), PyFloat(149), PyInt(15),
            PyFloat(299), PyInt(30)}

\* One value per category of each metric (Low, Medium, High, Elite).
RpmReps == {PyFloat(9), PyInt(1), PyInt(4), PyInt(8)}
LtReps == {PyInt(720), PyInt(168), PyInt(24), PyFloat(239)}
MttrReps == {PyInt(168), PyInt(24), PyInt(1), PyFloat(9)}
CfrReps == {PyInt(30), PyInt(15), PyInt(5), PyFloat(49)}

DoraDicts ==
    {a @@ b @@ c @@ d :
        a \in Opt("releases_per_month", RpmReps), b \in Opt("lead_time_hours", LtReps),
        c \in Opt("mttr_hours", MttrReps), d \in Opt("cfr", CfrReps)}
    \cup UNION {Opt("releases_per_month", RpmVals), Opt("lead_time_hours", LtVals),
                Opt("mttr_hours", MttrVals), Opt("cfr", CfrVals)}

\* One repository with a dora section only: every combination of categories,
\* and every boundary value of every metric.
DoraRepos == {PyDict("name" :> PyStr("a") @@ "dora" :> PyDict(d)) : d \in DoraDicts}

\* Repositories read by every aggregator: five profiles (Low, Critical,
\* no sections at all, High, Medium), each active and archived.
ProfileA ==
    [name |-> PyStr("a"), language |-> PyStr("Python"),
     updated_at |-> PyStr("2026-07-20T00:00:00Z"),
     dora |-> PyDict([releases_per_month |-> PyInt(10), lead_time_hours |-> PyInt(12),
                      mttr_hours |-> PyInt(2), cfr |-> PyInt(10)]),
     pr |-> PyDict([review_time_hours |-> PyInt(6), cycle_time_hours |-> PyInt(24),
                    wip |-> PyInt(2), throughput |-> PyInt(10), open |-> PyInt(2)]),
     ci |-> PyDict([has_ci |-> PyBool(TRUE), success_rate |-> PyInt(90),
                    runs_30d |-> PyInt(50), duration_mins |-> PyInt(5)]),
     security |-> PyDict([critical |-> PyInt(0), high |-> PyInt(0), medium |-> PyInt(0),
                          low |-> PyInt(0), secrets |-> PyInt(0),
                          dependency_alerts |-> PyInt(0), code_alerts |-> PyInt(0),
                          gate_pass |-> PyBool(TRUE), branch_protection |-> PyBool(TRUE),
                          dependabot |-> PyBool(TRUE), secret_scanning |-> PyBool(TRUE),
                          code_scanning |-> PyBool(FALSE), security_policy |-> PyBool(TRUE),
                          license |-> PyStr("MIT"), security_mttr_hours |-> PyInt(2)]),
     issues |-> PyDict([open |-> PyInt(5), closed_30d |-> PyInt(8), bugs |-> PyInt(1)]),
     commits |-> PyDict([count_30d |-> PyInt(4),
                         top |-> PyList(<<PyDict([login |-> PyStr("x"),
                                                  commits |-> PyInt(3)])>>)])]

ProfileB ==
    [name |-> PyStr("b"), language |-> PyStr("Go"),
     updated_at |-> PyStr("2026-06-19T00:00:00Z"),
     dora |-> PyDict([releases_per_month |-> PyInt(6), lead_time_hours |-> PyInt(20),
                      mttr_hours |-> PyInt(30), cfr |-> PyInt(20)]),
     pr |-> PyDict([review_time_hours |-> PyInt(8), cycle_time_hours |-> PyInt(30),
                    wip |-> PyInt(1), throughput |-> PyInt(4)]),
     ci |-> PyDict([has_ci |-> PyBool(TRUE), success_rate |-> PyInt(80),
                    runs_30d |-> PyInt(7), duration_mins |-> PyInt(12)]),
     security |-> PyDict([critical |-> PyInt(1), high |-> PyInt(2), medium |-> PyInt(5),
                          low |-> PyInt(8), secrets |-> PyInt(1),
                          dependency_alerts |-> PyInt(3), code_alerts |-> PyInt(2),
                          gate_pass |-> PyBool(FALSE), branch_protection |-> PyBool(FALSE),
                          dependabot |-> PyBool(TRUE), license |-> None,
                          security_mttr_hours |-> None]),
     issues |-> PyDict([open |-> PyInt(3), bugs |-> PyInt(4)]),
     commits |-> PyDict([top |-> PyList(<<PyDict([login |-> PyStr("x"), commits |-> PyInt(2)]),
                                          PyDict([login |-> PyStr("y"),
                                                  commits |-> PyInt(5)])>>)])]

ProfileC == [name |-> PyStr("c"), is_fork |-> PyBool(TRUE)]

ProfileD ==
    [name |-> PyStr("b"), language |-> PyStr("Python"),
     pushed_at |-> PyStr("2026-01-20T00:00:00Z"),
     dora |-> EmptyDict,
     pr |-> EmptyDict,
     ci |-> PyDict([has_ci |-> PyBool(FALSE), success_rate |-> PyInt(50),
                    runs_30d |-> PyInt(9)]),
     security |-> PyDict([high |-> PyInt(1), gate_pass |-> PyBool(TRUE),
                          security_mttr_hours |-> PyInt(0)])]

ProfileE ==
    [name |-> PyStr("a"),
     security |-> PyDict([medium |-> PyInt(1), gate_pass |-> PyBool(TRUE),
                          security_mttr_hours |-> PyInt(48)])]

ProfileRepos ==
    {PyDict(p @@ a) : p \in {ProfileA, ProfileB, ProfileC, ProfileD, ProfileE},
                      a \in Opt("is_archived", {PyBool(TRUE)})}

\* One repository whose security section sweeps every input of the risk
\* tiers, each field absent, zero or set; active and archived.
SecurityDicts ==
    {c @@ h @@ m @@ x @@ g :
        c \in Opt("critical", {PyInt(0), PyInt(1)}), h \in Opt("high", {PyInt(0), PyInt(2)}),
        m \in Opt("medium", {PyInt(0), PyInt(1)}), x \in Opt("secrets", {PyInt(0), PyInt(1)}),
        g \in Opt("gate_pass", {PyBool(TRUE), PyBool(FALSE)})}

SecurityRepos ==
    {PyDict("name" :> PyStr("a") @@ sec @@ a) :
        sec \in {<<>>} \cup {"security" :> PyDict(d) : d \in SecurityDicts},
        a \in Opt("is_archived", {PyBool(TRUE)})}

SeqsUpTo(S, n) == UNION {[1..k -> S] : k \in 0..n}

\* The collections the harness hands to the aggregators.
RepoCollections ==
    {<<r>> : r \in DoraRepos \cup SecurityRepos} \cup SeqsUpTo(ProfileRepos, MaxRepos)

\* The history directories of the harness: none, one snapshot, and a corrupt
\* newest file above two older snapshots.
SnapshotOf(total_vulns) ==
    PyDict([security |-> PyDict([total_vulns |-> PyInt(total_vulns)])])
HarnessHistories ==
    {<<>>, 199 :> SnapshotOf(1),
     (198 :> SnapshotOf(0)) @@ (199 :> SnapshotOf(16)) @@ (200 :> Corrupt)}

FirstNow == [day |-> 200, sec |-> 0]

---------------------------------------------------------------------------
(* Inputs of the runs of aggregate(): the files of data/raw *)

MaxRuns == 3
MaxDays == 2

\* The fifteen required fields of a raw record, as the collector writes them.
RawTop(name) ==
    [name |-> PyStr(name), full_name |-> PyStr(name), url |-> PyStr(name),
     description |-> None, language |-> PyStr("Python"),
     is_archived |-> PyBool(FALSE), is_fork |-> PyBool(FALSE),
     is_private |-> PyBool(FALSE),
     created_at |-> PyStr("2026-01-20T00:00:00Z"),
     updated_at |-> PyStr("2026-07-20T00:00:00Z"),
     pushed_at |-> PyStr("2026-07-20T00:00:00Z"),
     stars |-> PyInt(0), forks |-> PyInt(0), health_score |-> PyInt(80),
     collected_at |-> PyStr("2026-07-20T00:00:00Z")]

\* A complete security section with the given counts.
RawSecurity(critical, low, gate_pass) ==
    PyDict([score |-> PyInt(80), critical |-> PyInt(critical), high |-> PyInt(0),
            medium |-> PyInt(0), low |-> PyInt(low),
            total_vulns |-> PyInt(critical + low), secrets |-> PyInt(0),
            dependency_alerts |-> PyInt(0), code_alerts |-> PyInt(0),
            security_policy |-> PyBool(TRUE), branch_protection |-> PyBool(TRUE),
            dependabot |-> PyBool(TRUE), secret_scanning |-> PyBool(TRUE),
            code_scanning |-> PyBool(TRUE), gate_pass |-> PyBool(gate_pass),
            license |-> PyStr("MIT"), security_mttr_hours |-> None,
            dependabot_truncated |-> PyBool(FALSE),
            code_scanning_truncated |-> PyBool(FALSE),
            secret_scanning_truncated |-> PyBool(FALSE),
            available_dependabot |-> PyBool(TRUE),
            available_code_scanning |-> PyBool(TRUE),
            available_secret_scanning |-> PyBool(TRUE), errors |-> PyList(<<>>)])

\* Records the collector writes: they pass assert_raw_repo.
CleanRepo(name) == PyDict(RawTop(name) @@ [security |-> RawSecurity(0, 0, TRUE)])
VulnerableRepo(name) == PyDict(RawTop(name) @@ [security |-> RawSecurity(1, 1, FALSE)])

\* A record in the dialect generate_repo writes to data/raw: its dora and
\* security sections lack the fields the raw schema requires.
LegacyRepo(name) ==
    PyDict(RawTop(name) @@
           [dora |-> PyDict([deployment_frequency |-> PyStr("High"),
                             releases_per_month |-> PyInt(6),
                             lead_time_hours |-> PyInt(20),
                             mttr_hours |-> PyInt(2),
                             change_failure_rate |-> PyInt(10)]),
            security |-> PyDict([security_score |-> PyInt(70),
                                 branch_protection |-> PyBool(TRUE),
                                 vulnerability_count |-> PyInt(1),
                                 license |-> PyStr("MIT")])])

\* A record whose count of open pull requests in progress is no integer.
FloatWipRepo(name) ==
    PyDict(RawTop(name) @@ [pr |-> PyDict([wip |-> PyFloat(15), throughput |-> PyInt(3)])])

\* A file json.load cannot parse.
Unparseable == <<"unparseable", 0>>

\* The org-level metadata the collector writes beside the records.
GovernanceMeta == PyDict([org |-> PyStr("a"), repo_count |-> PyInt(1)])

\* File names are the characters before ".json".
FileA == <<"a">>
FileB == <<"b">>
FileGovernance == <<"_", "g">>

RawDirs ==
    {a @@ b @@ g :
        a \in {<<>>} \cup {FileA :> c : c \in {CleanRepo("a"), VulnerableRepo("a"),
                                                LegacyRepo("a"), Unparseable}},
        b \in {<<>>} \cup {FileB :> c : c \in {VulnerableRepo("b"), FloatWipRepo("b")}},
        g \in {<<>>, FileGovernance :> GovernanceMeta}}

\* The instants a process can start at: one day after the other, two
\* seconds of each.
Nows == {[day |-> d, sec |-> x] : d \in 200..(199 + MaxDays), x \in {0, 1}}
NotBefore(n, m) == n.day > m.day \/ (n.day = m.day /\ n.sec >= m.sec)

---------------------------------------------------------------------------
(* The function harness *)

\* An argument drawn from the input sets, and one action per function that
\* applies it; the run of aggregate() stays idle.
InitCalc ==
    /\ arg \in RepoCollections
    /\ fn = "none"
    /\ ret = None
    /\ NOW = FirstNow
    /\ history_dir \in HarnessHistories
    /\ raw_dir = <<>>
    /\ agg_file = None
    /\ pc = "idle"
    /\ runs = 0
    /\ run_repos = <<>>
    /\ run_data = None
    /\ warned = {}
    /\ persisted = None
    /\ before = None
    /\ collector = NotCollecting

Call(name, value) ==
    /\ fn = "none"
    /\ fn' = name
    /\ ret' = value
    /\ UNCHANGED <<arg, envVars, runVars>>

CallCalcDora == Call("calc_dora", calc_dora(arg))
CallCalcFlow == Call("calc_flow", calc_flow(arg))
CallCalcCi == Call("calc_ci", calc_ci(arg))
CallCalcSecurity == Call("calc_security", calc_security(arg, history_dir))
CallCalcIssues == Call("calc_issues", calc_issues(arg))
CallCalcGovernance == Call("calc_governance", calc_governance(arg))
CallBuildRepoTable == Call("build_repo_table", build_repo_table(arg, NOW))
CallBuildLanguages == Call("build_languages", build_languages(arg))
CallBuildContributors == Call("build_contributors", build_contributors(arg))

NextCalc ==
    \/ CallCalcDora
    \/ CallCalcFlow
    \/ CallCalcCi
    \/ CallCalcSecurity
    \/ CallCalcIssues
    \/ CallCalcGovernance
    \/ CallBuildRepoTable
    \/ CallBuildLanguages
    \/ CallBuildContributors

SpecCalc == InitCalc /\ [][NextCalc]_vars

\* calc_dora on repositories that measure all four metrics: one positive
\* value of every category for each.
MeasuredRepos ==
    {PyDict("name" :> PyStr("a") @@ "dora" :> PyDict(a @@ b @@ c @@ d)) :
        a \in {"releases_per_month" :> v : v \in RpmReps},
        b \in {"lead_time_hours" :> v : v \in LtReps},
        c \in {"mttr_hours" :> v : v \in MttrReps},
        d \in {"cfr" :> v : v \in CfrReps}}

\* One repository whose timestamps sweep the inputs of the status: on
\* both sides of the 30 and 180 days, without offset, unparseable, empty,
\* null, a number, absent; with and without pushed_at, active and archived.
UpdatedVals ==
    {PyStr("2026-07-20T00:00:00Z"), PyStr("2026-06-20T00:00:00Z"),
     PyStr("2026-06-19T00:00:00Z"), PyStr("2026-01-21T00:00:00+00:00"),
     PyStr("2026-01-20T00:00:00Z"), PyStr("2026-01-20T00:00:00"),
     PyStr("yesterday"), PyStr(""), None, PyInt(0), PyInt(20260720)}

StatusRepos ==
    {PyDict("name" :> PyStr("a") @@ u @@ q @@ a) :
        u \in Opt("updated_at", UpdatedVals),
        q \in Opt("pushed_at", {PyStr("2026-01-20T00:00:00Z"), PyInt(20260720)}),
        a \in Opt("is_archived", {PyBool(TRUE)})}

InitStatus ==
    /\ arg \in {<<r>> : r \in StatusRepos}
    /\ fn = "none"
    /\ ret = None
    /\ NOW \in {n \in Nows : n.day = FirstNow.day}
    /\ history_dir = <<>>
    /\ raw_dir = <<>>
    /\ agg_file = None
    /\ pc = "idle"
    /\ runs = 0
    /\ run_repos = <<>>
    /\ run_data = None
    /\ warned = {}
    /\ persisted = None
    /\ before = None
    /\ collector = NotCollecting

NextStatus == CallBuildRepoTable

SpecStatus == InitStatus /\ [][NextStatus]_vars

\* Repositories whose ci section sweeps the inputs of calc_ci: has_ci,
\* success_rate and runs_30d each absent or set; active and archived.
CiDicts ==
    {h @@ x @@ n :
        h \in Opt("has_ci", {PyBool(TRUE), PyBool(FALSE)}),
        x \in Opt("success_rate", {None, PyInt(0), PyInt(90), PyInt(80)}),
        n \in Opt("runs_30d", {PyInt(7)})}

CiRepos ==
    {PyDict("name" :> PyStr("a") @@ c @@ a) :
        c \in {<<>>} \cup {"ci" :> PyDict(d) : d \in CiDicts},
        a \in Opt("is_archived", {PyBool(TRUE)})}

InitCi ==
    /\ arg \in SeqsUpTo(CiRepos, MaxRepos)
    /\ fn = "none"
    /\ ret = None
    /\ NOW = FirstNow
    /\ history_dir = <<>>
    /\ raw_dir = <<>>
    /\ agg_file = None
    /\ pc = "idle"
    /\ runs = 0
    /\ run_repos = <<>>
    /\ run_data = None
    /\ warned = {}
    /\ persisted = None
    /\ before = None
    /\ collector = NotCollecting

NextCi == CallCalcCi

SpecCi == InitCi /\ [][NextCi]_vars

\* Security sections for calc_security: empty, fully compliant, and three
\* with vulnerabilities, some controls and a resolution time (zero, 24 and
\* 48 hours); a repository has one of them or none, active or archived.
SecuritySections ==
    {<<>>,
     [critical |-> PyInt(0), high |-> PyInt(0), medium |-> PyInt(0), low |-> PyInt(0),
      branch_protection |-> PyBool(TRUE), dependabot |-> PyBool(TRUE),
      secret_scanning |-> PyBool(TRUE), code_scanning |-> PyBool(TRUE),
      security_policy |-> PyBool(TRUE), license |-> PyStr("MIT"),
      gate_pass |-> PyBool(TRUE), security_mttr_hours |-> None],
     [critical |-> PyInt(1), high |-> PyInt(2), medium |-> PyInt(4), low |-> PyInt(8),
      branch_protection |-> PyBool(TRUE), dependabot |-> PyBool(FALSE),
      license |-> None, gate_pass |-> PyBool(FALSE),
      security_mttr_hours |-> PyInt(0)],
     [critical |-> PyInt(0), high |-> PyInt(1), low |-> PyInt(3),
      dependabot |-> PyBool(TRUE), secret_scanning |-> PyBool(TRUE),
      code_scanning |-> PyBool(FALSE), license |-> PyStr(""),
      security_mttr_hours |-> PyInt(24)],
     [critical |-> PyInt(2), medium |-> PyInt(1),
      code_scanning |-> PyBool(TRUE), security_policy |-> PyBool(TRUE),
      license |-> PyStr("Apache-2.0"), gate_pass |-> PyBool(TRUE),
      security_mttr_hours |-> PyInt(48)],
     [security_mttr_hours |-> PyInt(7), secrets |-> PyInt(1),
      secret_scanning |-> PyBool(FALSE), security_policy |-> PyBool(FALSE)]}

SectionRepos ==
    {PyDict("name" :> PyStr("a") @@ sec @@ a) :
        sec \in {<<>>} \cup {"security" :> PyDict(d) : d \in SecuritySections},
        a \in Opt("is_archived", {PyBool(TRUE), PyBool(FALSE)})}

InitSecurity ==
    /\ arg \in SeqsUpTo(SectionRepos, MaxRepos)
    /\ fn = "none"
    /\ ret = None
    /\ NOW = FirstNow
    /\ history_dir \in HarnessHistories
    /\ raw_dir = <<>>
    /\ agg_file = None
    /\ pc = "idle"
    /\ runs = 0
    /\ run_repos = <<>>
    /\ run_data = None
    /\ warned = {}
    /\ persisted = None
    /\ before = None
    /\ collector = NotCollecting

NextSecurity == CallCalcSecurity

SpecSecurity == InitSecurity /\ [][NextSecurity]_vars

\* A schema with one field of every kind that validate_dict_schema tells
\* apart (a type, a tuple of types, list, a nested schema), and the empty
\* schema.
OwnerSchema == << <<"login", TStr>>, <<"stars", TInt>> >>
RecordSchema ==
    << <<"name", TStr>>, <<"count", TInt>>, <<"tags", TList>>,
       <<"rate", TNumberOrNone>>, <<"owner", NestedSchema(OwnerSchema)>> >>
Schemas == {RecordSchema, OwnerSchema, <<>>}

\* Records with each field of RecordSchema absent, well typed or wrongly
\* typed, the nested record included, and an extra field; and two values
\* that are no dict.
Owners ==
    {PyDict(l @@ n) :
        l \in Opt("login", {PyStr("o"), PyInt(3)}),
        n \in Opt("stars", {PyInt(1), None})}
Records ==
    {PyDict(n @@ c @@ t @@ r @@ o) :
        n \in Opt("name", {PyStr("a"), PyInt(5)}),
        c \in Opt("count", {PyInt(1), PyStr("x"), PyBool(TRUE)}),
        t \in Opt("tags", {PyList(<<>>), PyStr("x")}),
        r \in Opt("rate", {None, PyFloat(15), PyStr("x")}),
        o \in Opt("owner", {PyStr("x")} \cup Owners)}
        \cup {PyDict([login |-> PyStr("o"), stars |-> PyInt(1), extra |-> None])}
        \cup {None, PyList(<<>>)}

InitValidate ==
    /\ arg \in Records \X Schemas
    /\ fn = "none"
    /\ ret = None
    /\ NOW = FirstNow
    /\ history_dir = <<>>
    /\ raw_dir = <<>>
    /\ agg_file = None
    /\ pc = "idle"
    /\ runs = 0
    /\ run_repos = <<>>
    /\ run_data = None
    /\ warned = {}
    /\ persisted = None
    /\ before = None
    /\ collector = NotCollecting

\* validate_dict_schema(data, schema) with the default path; its result is
\* the tuple (is_valid, errors).
CallValidateDictSchema ==
    Call("validate_dict_schema",
         <<"tuple", validate_dict_schema(arg[1], arg[2], <<"root">>)>>)

NextValidate == CallValidateDictSchema

SpecValidate == InitValidate /\ [][NextValidate]_vars

\* The lists handed to safe_avg: null, zero, negative and positive
\* integers in every order, and single values with a decimal.
MaxLen == 3

AvgValues == {None, PyInt(0), PyInt(-3), PyInt(1), PyInt(2), PyInt(4)}
AvgLists ==
    SeqsUpTo(AvgValues, MaxLen)
        \cup {<<v>> : v \in {PyFloat(5), PyFloat(-5), PyFloat(25), PyFloat(0)}}

InitAvg ==
    /\ arg \in AvgLists
    /\ fn = "none"
    /\ ret = None
    /\ NOW = FirstNow
    /\ history_dir = <<>>
    /\ raw_dir = <<>>
    /\ agg_file = None
    /\ pc = "idle"
    /\ runs = 0
    /\ run_repos = <<>>
    /\ run_data = None
    /\ warned = {}
    /\ persisted = None
    /\ before = None
    /\ collector = NotCollecting

CallSafeAvg == Call("safe_avg", safe_avg(arg))

NextAvg == CallSafeAvg

SpecAvg == InitAvg /\ [][NextAvg]_vars

\* Nested mappings up to three levels deep over the keys a and b, key paths
\* of up to MaxLen keys, and defaults that are null, a number or a mapping.
Leaves == {None, PyInt(42), PyStr("x")}
Level1 == {PyDict(b) : b \in Opt("b", Leaves)}
Level2 == {PyDict(a) : a \in Opt("a", Leaves \cup Level1)}
Level3 == {PyDict(a @@ b) : a \in Opt("a", Leaves \cup Level2), b \in Opt("b", {PyInt(7)})}
KeyPaths == SeqsUpTo({"a", "b"}, MaxLen)
Defaults == {None, PyInt(0), PyInt(-1), PyDict([b |-> PyInt(1)])}

InitSafeGet ==
    /\ arg \in Level3 \X KeyPaths \X Defaults
    /\ fn = "none"
    /\ ret = None
    /\ NOW = FirstNow
    /\ history_dir = <<>>
    /\ raw_dir = <<>>
    /\ agg_file = None
    /\ pc = "idle"
    /\ runs = 0
    /\ run_repos = <<>>
    /\ run_data = None
    /\ warned = {}
    /\ persisted = None
    /\ before = None
    /\ collector = NotCollecting

CallSafeGet == Call("safe_get", safe_get(arg[1], arg[2], arg[3]))

NextSafeGet == CallSafeGet

SpecSafeGet == InitSafeGet /\ [][NextSafeGet]_vars

\* Result sets around every multiple of the page size up to the default cap
\* and beyond it, page caps 1, 2 and the default, and servers that answer
\* every page with 200 or one page with an error.
Totals == {0, 1, 5, 99, 100, 101, 199, 200, 201, 399, 400, 401, 499, 500, 501, 600}
PageCaps == {1, 2, MAX_PAGES}
Statuses(max_pages) ==
    {[p \in 1..max_pages |-> "200"]}
        \cup {[p \in 1..max_pages |-> IF p = bad THEN status ELSE "200"] :
                  bad \in 1..max_pages, status \in {"403", "404", "500", "error"}}

InitPaginated ==
    /\ arg \in UNION {{<<[total |-> t, status |-> st], m>> : t \in Totals, st \in Statuses(m)} :
                        m \in PageCaps}
    /\ fn = "none"
    /\ ret = None
    /\ NOW = FirstNow
    /\ history_dir = <<>>
    /\ raw_dir = <<>>
    /\ agg_file = None
    /\ pc = "idle"
    /\ runs = 0
    /\ run_repos = <<>>
    /\ run_data = None
    /\ warned = {}
    /\ persisted = None
    /\ before = None
    /\ collector = NotCollecting

CallGetPaginated ==
    Call("get_paginated", <<"tuple", get_paginated(arg[1], arg[2])>>)

NextPaginated == CallGetPaginated

SpecPaginated == InitPaginated /\ [][NextPaginated]_vars

InitDoraMeasured ==
    /\ arg \in {<<r>> : r \in MeasuredRepos}
    /\ fn = "none"
    /\ ret = None
    /\ NOW = FirstNow
    /\ history_dir = <<>>
    /\ raw_dir = <<>>
    /\ agg_file = None
    /\ pc = "idle"
    /\ runs = 0
    /\ run_repos = <<>>
    /\ run_data = None
    /\ warned = {}
    /\ persisted = None
    /\ before = None
    /\ collector = NotCollecting

NextDoraMeasured == CallCalcDora

SpecDoraMeasured == InitDoraMeasured /\ [][NextDoraMeasured]_vars

---------------------------------------------------------------------------
(* MAIN AGGREGATION: the runs of aggregate() *)

\* RUN_ID and the generated_at stamp, NOW formatted to the second and to
\* the minute.
RUN_ID(now) == ToString(now.day) \o "_" \o ToString(now.sec)
generated_at(now) == ToString(now.day) \o " " \o ToString(now.sec \div 60) \o " UTC"

\* Every permutation of a set of file names: the orders glob can yield.
Orders(S) ==
    {o \in [1..Cardinality(S) -> S] : \A i, j \in DOMAIN o : o[i] = o[j] => i = j}

\* load_repos: the parsed content of every file that is no "_" file, in
\* glob order; a file that does not parse is reported and left out.
RECURSIVE load_repos_with_metadata(_, _)
\* load_repos that takes the "_" files for records too.
load_repos_with_metadata(dir, order) ==
    IF order = <<>> THEN [repos |-> <<>>, warned |-> {}]
    ELSE LET f == Head(order)
             rest == load_repos_with_metadata(dir, Tail(order))
         IN  IF dir[f] = Unparseable
             THEN [rest EXCEPT !.warned = @ \cup {f}]
             ELSE [rest EXCEPT !.repos = <<dir[f]>> \o @]

RECURSIVE load_repos(_, _)
load_repos(dir, order) ==
    IF order = <<>> THEN [repos |-> <<>>, warned |-> {}]
    ELSE LET f == Head(order)
             rest == load_repos(dir, Tail(order))
         IN  IF f[1] = "_" THEN rest
             ELSE IF dir[f] = Unparseable
                  THEN [rest EXCEPT !.warned = @ \cup {f}]
             ELSE [rest EXCEPT !.repos = <<dir[f]>> \o @]

\* The dashboard aggregate() assembles.
Dashboard(rs, now, history) ==
    PyDict([org_name |-> PyStr("PJawanth"),
            generated_at |-> PyStr(generated_at(now)),
            run_id |-> PyStr(RUN_ID(now)),
            repos |-> build_repo_table(rs, now),
            dora |-> calc_dora(rs),
            flow |-> calc_flow(rs),
            ci |-> calc_ci(rs),
            security |-> calc_security(rs, history),
            issues |-> calc_issues(rs),
            governance |-> calc_governance(rs),
            languages |-> build_languages(rs),
            contributors |-> build_contributors(rs)])

\* A record with some fields dropped and some set to a list.
Broken(d, drops, breaks) ==
    PyDict([k \in DOMAIN d[2] \ drops |->
                IF k \in breaks THEN PyList(<<>>) ELSE d[2][k]])

\* A record with one of its sections broken in that way.
BrokenSection(d, section, drops, breaks) ==
    PyDict([d[2] EXCEPT ![section] = Broken(@, drops, breaks)])

\* Raw records for assert_raw_repo: what the collector and generate_repo
\* write, and a collector's record with top-level fields or fields of its
\* security section missing or wrongly typed, several at once.
RawRecords ==
    {CleanRepo("a"), VulnerableRepo("b"), LegacyRepo("a"), FloatWipRepo("b")}
        \cup {Broken(CleanRepo("a"), drops, breaks) :
                  drops \in SUBSET {"name", "stars"},
                  breaks \in SUBSET {"is_private", "security"}}
        \cup {BrokenSection(CleanRepo("a"), "security", drops, breaks) :
                  drops \in SUBSET {"critical", "errors"},
                  breaks \in SUBSET {"license"}}

\* Dashboards for assert_aggregated_dashboard: what aggregate() assembles,
\* and one with top-level fields or fields of its ci section missing or
\* wrongly typed.
CleanDashboard == Dashboard(<<CleanRepo("a"), VulnerableRepo("b")>>, FirstNow, <<>>)
Dashboards ==
    {CleanDashboard, Dashboard(<<>>, FirstNow, <<>>)}
        \cup {Broken(CleanDashboard, drops, breaks) :
                  drops \in SUBSET {"org_name", "governance"},
                  breaks \in SUBSET {"dora"}}
        \cup {BrokenSection(CleanDashboard, "ci", drops, breaks) :
                  drops \in SUBSET {"adoption"},
                  breaks \in SUBSET {"success_rate", "total_runs"}}

\* The labels a caller passes as repo_name.
RepoNames == {"a", "b", "org/repo"}

InitAssert ==
    /\ arg \in (RawRecords \cup Dashboards) \X RepoNames
    /\ fn = "none"
    /\ ret = None
    /\ NOW = FirstNow
    /\ history_dir = <<>>
    /\ raw_dir = <<>>
    /\ agg_file = None
    /\ pc = "idle"
    /\ runs = 0
    /\ run_repos = <<>>
    /\ run_data = None
    /\ warned = {}
    /\ persisted = None
    /\ before = None
    /\ collector = NotCollecting

CallAssertRawRepo == Call("assert_raw_repo", assert_raw_repo(arg[1], arg[2]))
CallAssertAggregatedDashboard ==
    Call("assert_aggregated_dashboard", assert_aggregated_dashboard(arg[1]))

NextAssert == CallAssertRawRepo \/ CallAssertAggregatedDashboard

SpecAssert == InitAssert /\ [][NextAssert]_vars

\* A value of the first type a schema entry allows.
SampleOf(expected_type) ==
    IF expected_type.kind = "list" THEN PyList(<<>>)
    ELSE CASE expected_type.names[1] = "str" -> PyStr("s")
           [] expected_type.names[1] = "int" -> PyInt(1)
           [] expected_type.names[1] = "bool" -> PyBool(TRUE)
           [] expected_type.names[1] = "dict" -> EmptyDict

\* The record that holds a well-typed value for every entry of a schema.
SampleRecord(schema) ==
    LET Type(k) == (CHOOSE i \in 1..Len(schema) : schema[i][1] = k)
    IN  PyDict([k \in {schema[i][1] : i \in 1..Len(schema)} |->
                    SampleOf(schema[Type(k)][2])])

\* The same record with every nested section filled in as well.
CompleteRecord(fields, sections) ==
    LET Section(k) == (CHOOSE i \in 1..Len(sections) : sections[i][1] = k)
    IN  PyDict([k \in {sections[i][1] : i \in 1..Len(sections)} |->
                    SampleRecord(sections[Section(k)][2])]
               @@ SampleRecord(fields)[2])

\* The paths of the fields and sections that the schemas declare.
DeclaredPaths(fields, sections) ==
    {<<fields[i][1]>> : i \in 1..Len(fields)}
        \cup {<<sections[i][1]>> : i \in 1..Len(sections)}
        \cup UNION {{<<sections[i][1], sections[i][2][j][1]>> :
                        j \in 1..Len(sections[i][2])} : i \in 1..Len(sections)}

\* A record with null written at some paths.
Nulled(d, paths) ==
    PyDict([k \in DOMAIN d[2] |->
                IF <<k>> \in paths THEN None
                ELSE IF IsDict(d[2][k])
                     THEN PyDict([f \in DOMAIN d[2][k][2] |->
                                      IF <<k, f>> \in paths THEN None ELSE d[2][k][2][f]])
                     ELSE d[2][k]])

\* A complete record of the schemas as it is, with null at one declared
\* path, with null at two paths of the head of the record, and with null in
\* every field of every section.
NulledRecords(fields, sections) ==
    LET d == CompleteRecord(fields, sections)
        all == DeclaredPaths(fields, sections)
        head == {<<fields[i][1]>> : i \in 1..4}
    IN  {d, Nulled(d, {p \in all : Len(p) = 2})}
            \cup {Nulled(d, {p}) : p \in all}
            \cup {Nulled(d, {p, q}) : p \in head, q \in head}

NulledRawRepos == NulledRecords(RAW_REPO_REQUIRED_FIELDS, RAW_REPO_NESTED_SCHEMAS)
NulledDashboards ==
    NulledRecords(AGGREGATED_DASHBOARD_REQUIRED_FIELDS, AGGREGATED_DASHBOARD_NESTED_SCHEMAS)

InitNull ==
    /\ arg \in {<<d>> : d \in NulledRawRepos \cup NulledDashboards}
    /\ fn = "none"
    /\ ret = None
    /\ NOW = FirstNow
    /\ history_dir = <<>>
    /\ raw_dir = <<>>
    /\ agg_file = None
    /\ pc = "idle"
    /\ runs = 0
    /\ run_repos = <<>>
    /\ run_data = None
    /\ warned = {}
    /\ persisted = None
    /\ before = None
    /\ collector = NotCollecting

\* The validators return the tuple (is_valid, errors).
CallValidateRawRepo ==
    Call("validate_raw_repo", <<"tuple", validate_raw_repo(arg[1])>>)
CallValidateAggregatedDashboard ==
    Call("validate_aggregated_dashboard", <<"tuple", validate_aggregated_dashboard(arg[1])>>)

NextNull == CallValidateRawRepo \/ CallValidateAggregatedDashboard

SpecNull == InitNull /\ [][NextNull]_vars

\* The names of the nested sections a schema declares.
SectionNames(sections) == {sections[i][1] : i \in 1..Len(sections)}

\* A record without some of its keys.
Dropped(d, names) == PyDict([k \in DOMAIN d[2] \ names |-> d[2][k]])

\* A complete record of the schemas, and the same record with null in every
\* field of every section, each without any subset of the nested sections.
SectionedRecords(fields, sections) ==
    LET d == CompleteRecord(fields, sections)
        inner == {p \in DeclaredPaths(fields, sections) : Len(p) = 2}
    IN  {Dropped(c, names) : c \in {d, Nulled(d, inner)},
                             names \in SUBSET SectionNames(sections)}

SectionedRawRepos == SectionedRecords(RAW_REPO_REQUIRED_FIELDS, RAW_REPO_NESTED_SCHEMAS)
SectionedDashboards ==
    SectionedRecords(AGGREGATED_DASHBOARD_REQUIRED_FIELDS, AGGREGATED_DASHBOARD_NESTED_SCHEMAS)

InitSections ==
    /\ arg \in {<<d>> : d \in SectionedRawRepos \cup SectionedDashboards}
    /\ fn = "none"
    /\ ret = None
    /\ NOW = FirstNow
    /\ history_dir = <<>>
    /\ raw_dir = <<>>
    /\ agg_file = None
    /\ pc = "idle"
    /\ runs = 0
    /\ run_repos = <<>>
    /\ run_data = None
    /\ warned = {}
    /\ persisted = None
    /\ before = None
    /\ collector = NotCollecting

NextSections == CallValidateRawRepo \/ CallValidateAggregatedDashboard

SpecSections == InitSections /\ [][NextSections]_vars

\* The aggregators and builders that aggregate() invokes, with the key of
\* the dashboard each result is stored under.
Aggregators ==
    {<<"build_repo_table", "repos">>, <<"calc_dora", "dora">>, <<"calc_flow", "flow">>,
     <<"calc_ci", "ci">>, <<"calc_security", "security">>, <<"calc_issues", "issues">>,
     <<"calc_governance", "governance">>, <<"build_languages", "languages">>,
     <<"build_contributors", "contributors">>}

\* What one of them returns.
Result(name, repos, now, history) ==
    CASE name = "build_repo_table" -> build_repo_table(repos, now)
      [] name = "calc_dora" -> calc_dora(repos)
      [] name = "calc_flow" -> calc_flow(repos)
      [] name = "calc_ci" -> calc_ci(repos)
      [] name = "calc_security" -> calc_security(repos, history)
      [] name = "calc_issues" -> calc_issues(repos)
      [] name = "calc_governance" -> calc_governance(repos)
      [] name = "build_languages" -> build_languages(repos)
      [] name = "build_contributors" -> build_contributors(repos)

\* The collection after calc_governance took the archived records out of it.
CollectionFiltered(name, repos) ==
    IF name = "calc_governance" THEN Active(repos) ELSE repos

\* The collection after one of them ran on it: none assigns to the list,
\* to a record of it or to a section of a record.
CollectionAfter(name, repos) == repos

\* The collections for the invocations in any order.
OrderRepos == {PyDict(ProfileA), PyDict(ProfileB), PyDict(ProfileD),
               PyDict(ProfileB @@ [is_archived |-> PyBool(TRUE)])}

InitOrder ==
    /\ arg \in SeqsUpTo(OrderRepos, MaxRepos)
    /\ fn = "none"
    /\ ret = EmptyDict
    /\ NOW = FirstNow
    /\ history_dir = 199 :> SnapshotOf(1)
    /\ raw_dir = <<>>
    /\ agg_file = None
    /\ pc = "idle"
    /\ runs = 0
    /\ run_repos = <<>>
    /\ run_data = None
    /\ warned = {}
    /\ persisted = None
    /\ before = None
    /\ collector = NotCollecting

\* One aggregator that has not run yet runs on the collection; its result
\* is stored under its key.
Invoke(name, key) ==
    /\ key \notin DOMAIN ret[2]
    /\ fn' = name
    /\ ret' = PyDict(ret[2] @@ (key :> Result(name, arg, NOW, history_dir)))
    /\ arg' = CollectionAfter(name, arg)
    /\ UNCHANGED <<envVars, runVars>>

NextOrder == \E a \in Aggregators : Invoke(a[1], a[2])

SpecOrder == InitOrder /\ [][NextOrder]_vars

\* What a dashboard file holds, as far as a later run reads it: the run
\* that wrote it and the total of vulnerabilities.
Stored(d) ==
    PyDict([run_id |-> d[2].run_id,
            security |-> PyDict([total_vulns |-> d[2].security[2].total_vulns])])

Init ==
    /\ arg = <<>>
    /\ fn = "none"
    /\ ret = None
    /\ NOW = FirstNow
    /\ raw_dir = <<>>
    /\ history_dir = <<>>
    /\ agg_file = None
    /\ pc = "idle"
    /\ runs = 0
    /\ run_repos = <<>>
    /\ run_data = None
    /\ warned = {}
    /\ persisted = None
    /\ before = None
    /\ collector = NotCollecting

\* A process starts: the module is imported, NOW is read from the clock,
\* and data/raw holds what the collector left there.
StartRun ==
    /\ pc \in {"idle", "done", "aborted"}
    /\ runs < MaxRuns
    /\ runs' = runs + 1
    /\ \E n \in Nows : NotBefore(n, NOW) /\ NOW' = n
    /\ raw_dir' \in RawDirs
    /\ pc' = "started"
    /\ run_repos' = <<>>
    /\ run_data' = None
    /\ warned' = {}
    /\ before' = [agg_file |-> agg_file, history_dir |-> history_dir,
                  persisted |-> persisted]
    /\ UNCHANGED <<calcVars, collector, history_dir, agg_file, persisted>>

LoadRepos ==
    /\ pc = "started"
    /\ \E order \in Orders(DOMAIN raw_dir) :
           LET loaded == load_repos(raw_dir, order)
           IN  /\ run_repos' = loaded.repos
               /\ warned' = loaded.warned
    /\ pc' = "loaded"
    /\ UNCHANGED <<calcVars, collector, envVars, runs, run_data, persisted, before>>

Assemble ==
    /\ pc = "loaded"
    /\ run_data' = Dashboard(run_repos, NOW, history_dir)
    /\ pc' = "assembled"
    /\ UNCHANGED <<calcVars, collector, envVars, runs, run_repos, warned, persisted, before>>

\* Validate with the ValueError swallowed.
ValidateIgnored ==
    /\ pc = "assembled"
    /\ pc' = "validated"
    /\ UNCHANGED <<calcVars, collector, envVars, runs, run_repos, run_data, warned,
                   persisted, before>>

\* assert_aggregated_dashboard(data): a ValueError ends the process.
Validate ==
    /\ pc = "assembled"
    /\ pc' = IF assert_aggregated_dashboard(run_data) = None THEN "validated" ELSE "aborted"
    /\ UNCHANGED <<calcVars, collector, envVars, runs, run_repos, run_data, warned,
                   persisted, before>>

WriteAggregated ==
    /\ pc = "validated"
    /\ agg_file' = Stored(run_data)
    /\ pc' = "written"
    /\ UNCHANGED <<calcVars, collector, NOW, raw_dir, history_dir, runs, run_repos,
                   run_data, warned,
                   persisted, before>>

WriteHistory ==
    /\ pc = "written"
    /\ history_dir' = (NOW.day :> Stored(run_data)) @@ history_dir
    /\ persisted' = <<"snapshot", [run |-> runs, content |-> Stored(run_data)]>>
    /\ pc' = "done"
    /\ UNCHANGED <<calcVars, collector, NOW, raw_dir, agg_file, runs, run_repos,
                   run_data, warned,
                   before>>

Next ==
    \/ StartRun
    \/ LoadRepos
    \/ Assemble
    \/ Validate
    \/ WriteAggregated
    \/ WriteHistory

Spec == Init /\ [][Next]_vars

---------------------------------------------------------------------------
(* COLLECTION (src/metrics/collect.py): the runs of main *)

\* The repositories the API lists for the organisation: up to MaxRepos
\* entries with distinct names, each archived or not, a fork or not.
OrgRepos ==
    {l \in SeqsUpTo([name : {"a", "b", "c"}, archived : BOOLEAN, fork : BOOLEAN], MaxRepos) :
        \A i, j \in DOMAIN l : l[i].name = l[j].name => i = j}

\* What collect_repo does for a repository: it returns a record that
\* passes the raw schema, returns one that does not, or raises.
Collected(name) == {CleanRepo(name), VulnerableRepo(name), LegacyRepo(name), <<"raises", 0>>}

\* data/raw when main starts: empty, or with the file of an earlier run.
EarlierRawDirs == {<<>>, FileA :> VulnerableRepo("a")}

\* gov as main writes it to _governance.json.
Governance(gov) ==
    PyDict([total |-> PyInt(gov.total), scanned |-> PyInt(gov.scanned),
            archived |-> PyInt(gov.archived), forked |-> PyInt(gov.forked)])

InitCollect ==
    /\ arg = <<>>
    /\ fn = "none"
    /\ ret = None
    /\ NOW = FirstNow
    /\ raw_dir \in EarlierRawDirs
    /\ history_dir = <<>>
    /\ agg_file = None
    /\ pc = "idle"
    /\ runs = 0
    /\ run_repos = <<>>
    /\ run_data = None
    /\ warned = {}
    /\ persisted = None
    /\ before = None
    /\ collector = NotCollecting

\* validate_env(): without token or organisation the process exits with 1.
ValidateEnv ==
    /\ collector.pc = "idle"
    /\ \E configured \in BOOLEAN :
           collector' = IF configured
                        THEN [collector EXCEPT !.pc = "configured"]
                        ELSE [collector EXCEPT !.pc = "exited", !.exit_status = 1]
    /\ UNCHANGED <<calcVars, envVars, pc, runs, run_repos, run_data, warned, persisted, before>>

\* get_org_repos(org): make_request counts the requests that fail with
\* another status than 403, 404 and 422 in errors_count; without a
\* repository the process exits with 1.
FetchRepos ==
    /\ collector.pc = "configured"
    /\ \E repos \in OrgRepos, request_errors \in {0, 1} :
           collector' =
               IF repos = <<>>
               THEN [collector EXCEPT !.pc = "exited", !.exit_status = 1,
                                      !.errors_count = @ + request_errors]
               ELSE [collector EXCEPT !.pc = "collecting", !.repos = repos, !.i = 1,
                                      !.errors_count = @ + request_errors,
                                      !.gov = [total |-> Len(repos), scanned |-> 0,
                                               archived |-> 0, forked |-> 0]]
    /\ UNCHANGED <<calcVars, envVars, pc, runs, run_repos, run_data, warned, persisted, before>>

\* One pass of the loop over repos: an archived repository is counted and
\* left alone; another one is collected, checked with assert_raw_repo and
\* written to <name>.json, and an exception on the way is counted in
\* errors_count.
CollectRepo ==
    /\ collector.pc = "collecting"
    /\ collector.i <= Len(collector.repos)
    /\ LET r == collector.repos[collector.i]
           next == [collector EXCEPT !.i = @ + 1]
       IN  IF r.archived
           THEN /\ collector' = [next EXCEPT !.gov.archived = @ + 1]
                /\ UNCHANGED raw_dir
           ELSE \E data \in Collected(r.name), request_errors \in {0, 1} :
                    LET counted ==
                            [next EXCEPT !.gov.forked = @ + (IF r.fork THEN 1 ELSE 0),
                                         !.errors_count = @ + request_errors]
                        failed == [counted EXCEPT !.errors_count = @ + 1,
                                                  !.failed = @ \cup {r.name}]
                    IN  IF data[1] = "raises"
                        THEN collector' = failed /\ UNCHANGED raw_dir
                        ELSE IF assert_raw_repo(data, r.name) # None
                        THEN collector' = failed /\ UNCHANGED raw_dir
                        ELSE /\ raw_dir' = (<<r.name>> :> data) @@ raw_dir
                             /\ collector' = [counted EXCEPT !.gov.scanned = @ + 1,
                                                             !.written = @ \cup {r.name}]
    /\ UNCHANGED <<calcVars, NOW, history_dir, agg_file, pc, runs, run_repos, run_data,
                   warned, persisted, before>>

\* After the loop: _governance.json is written and the process exits, with
\* 1 when errors_count is above 0.
FinishCollect ==
    /\ collector.pc = "collecting"
    /\ collector.i > Len(collector.repos)
    /\ raw_dir' = (FileGovernance :> Governance(collector.gov)) @@ raw_dir
    /\ collector' = [collector EXCEPT !.pc = "exited",
                                      !.exit_status = IF collector.errors_count > 0
                                                      THEN 1 ELSE 0]
    /\ UNCHANGED <<calcVars, NOW, history_dir, agg_file, pc, runs, run_repos, run_data,
                   warned, persisted, before>>

NextCollect == ValidateEnv \/ FetchRepos \/ CollectRepo \/ FinishCollect

SpecCollect == InitCollect /\ [][NextCollect]_vars

---------------------------------------------------------------------------
(* calc_dora: categories *)

\* The fields of calc_dora's result
DoraValue(res, metric) == Num(res[2][metric][2].value)
DoraCat(res, metric) == res[2][metric][2].category[2]
DoraOverall(res) == res[2].overall[2]

Reports(r, key) ==
    /\ "dora" \in DOMAIN r[2]
    /\ IsDict(r[2].dora)
    /\ key \in DOMAIN r[2].dora[2]
    /\ IsNumber(r[2].dora[2][key])
    /\ Num(r[2].dora[2][key]) > 0

IsArchived(r) == "is_archived" \in DOMAIN r[2] /\ r[2].is_archived = PyBool(TRUE)

\* No active repository of the collection reports a positive value for key.
Unmeasured(repos, key) ==
    \A i \in 1..Len(repos) : IsArchived(repos[i]) \/ ~Reports(repos[i], key)

DoraMetrics ==
    {<<"releases_per_month", "deployment_frequency">>, <<"lead_time_hours", "lead_time">>,
     <<"mttr_hours", "mttr">>, <<"cfr", "ci_failure_rate">>}

\* C2 (as claimed): a metric for which no active repository reports a
\* positive value is reported with value 0 and the lowest category, Low.
C2_UnmeasuredIsLow ==
    fn = "calc_dora" =>
        \A m \in DoraMetrics :
            Unmeasured(arg, m[1]) =>
                /\ DoraValue(ret, m[2]) = 0
                /\ DoraCat(ret, m[2]) = "Low"

\* C3 (as claimed): lead-time, MTTR and CI-failure-rate categories all
\* Elite imply that the overall category is Elite, whatever the
\* releases-per-month category.
C3_ThreeEliteOverallElite ==
    (/\ fn = "calc_dora"
     /\ DoraCat(ret, "lead_time") = "Elite"
     /\ DoraCat(ret, "mttr") = "Elite"
     /\ DoraCat(ret, "ci_failure_rate") = "Elite")
        => DoraOverall(ret) = "Elite"

\* C3 (amended): with lead-time, MTTR and CI-failure-rate categories all
\* Elite, the overall category is Elite when the releases-per-month
\* category is Medium, High or Elite, and High when it is Low.
C3_ThreeEliteAmended ==
    (/\ fn = "calc_dora"
     /\ DoraCat(ret, "lead_time") = "Elite"
     /\ DoraCat(ret, "mttr") = "Elite"
     /\ DoraCat(ret, "ci_failure_rate") = "Elite")
        => DoraOverall(ret) =
               IF DoraCat(ret, "deployment_frequency") = "Low" THEN "High" ELSE "Elite"

\* C3 witness: three Elite categories beside a measured Medium
\* releases-per-month rate, overall Elite.
C3_Witness ==
    /\ fn = "calc_dora"
    /\ DoraCat(ret, "lead_time") = "Elite"
    /\ DoraCat(ret, "mttr") = "Elite"
    /\ DoraCat(ret, "ci_failure_rate") = "Elite"
    /\ DoraCat(ret, "deployment_frequency") = "Medium"
    /\ DoraValue(ret, "lead_time") > 0
    /\ DoraOverall(ret) = "Elite"

\* The weight of a category, as the claim gives it.
Weight(c) ==
    CASE c = "Elite" -> 4 [] c = "High" -> 3 [] c = "Medium" -> 2 [] c = "Low" -> 1

WeightSum(res) ==
    Weight(DoraCat(res, "deployment_frequency")) + Weight(DoraCat(res, "lead_time"))
        + Weight(DoraCat(res, "mttr")) + Weight(DoraCat(res, "ci_failure_rate"))

\* C4: the overall category is determined by the four category weights:
\* the mean of the weights rounded to one decimal is Elite when >= 3.5, High
\* when >= 2.5, Medium when >= 1.5, else Low; equivalently the weight sum
\* 14..16 gives Elite, 10..13 High, 6..9 Medium, 4..5 Low.
C4_OverallByWeights ==
    fn = "calc_dora" =>
        LET w == WeightSum(ret)
            mean == RoundDiv(w * 10, 4)
        IN  /\ DoraOverall(ret) =
                  CASE w \in 14..16 -> "Elite" [] w \in 10..13 -> "High"
                    [] w \in 6..9 -> "Medium" [] w \in 4..5 -> "Low"
            /\ DoraOverall(ret) =
                  CASE mean >= 35 -> "Elite" [] mean \in 25..34 -> "High"
                    [] mean \in 15..24 -> "Medium" [] mean < 15 -> "Low"

\* C4 witness: a weight sum of 13, whose mean 3.25 rounds to 3.2: High.
C4_Witness ==
    /\ fn = "calc_dora"
    /\ WeightSum(ret) = 13
    /\ DoraOverall(ret) = "High"

---------------------------------------------------------------------------
(* Archived repositories *)

\* A count of a record's security section, 0 when absent.
SecurityCount(r, key) ==
    IF "security" \in DOMAIN r[2] /\ key \in DOMAIN r[2].security[2]
    THEN Num(r[2].security[2][key]) ELSE 0

\* The collection with its archived records removed.
WithoutArchived(repos) == SelectSeq(repos, LAMBDA r: ~IsArchived(r))

\* C5: calc_dora, calc_flow, calc_ci and calc_security return the same
\* result on a collection and on the collection with all archived records
\* removed, while calc_governance counts the archived records in
\* total_repos and in archived_repos.
C5_ArchivedExcluded ==
    /\ fn = "calc_dora" => ret = calc_dora(WithoutArchived(arg))
    /\ fn = "calc_flow" => ret = calc_flow(WithoutArchived(arg))
    /\ fn = "calc_ci" => ret = calc_ci(WithoutArchived(arg))
    /\ fn = "calc_security" => ret = calc_security(WithoutArchived(arg), history_dir)
    /\ fn = "calc_governance" =>
           /\ Num(ret[2].total_repos) = Len(arg) * Scale
           /\ Num(ret[2].archived_repos) = (Len(arg) - Len(WithoutArchived(arg))) * Scale

\* C5 witness: calc_security on an archived repository with a critical
\* vulnerability beside an active one, no vulnerability counted.
C5_Witness ==
    /\ fn = "calc_security"
    /\ Len(arg) = 2
    /\ \E i \in 1..2 : IsArchived(arg[i]) /\ SecurityCount(arg[i], "critical") > 0
    /\ \E i \in 1..2 : ~IsArchived(arg[i])
    /\ Num(ret[2].critical_vulns) = 0
    /\ Num(ret[2].total_vulns) = 0

---------------------------------------------------------------------------
(* Input validation *)

\* The files of data/raw that hold a record: no "_" file, and parseable.
RecordFiles == {f \in DOMAIN raw_dir : f[1] # "_" /\ raw_dir[f] # Unparseable}

Loaded == pc \in {"loaded", "assembled", "validated", "aborted", "written", "done"}
Assembled == pc \in {"assembled", "validated", "aborted", "written", "done"}

\* C6 (as claimed): a raw file that parses but fails the RawRepoRecord
\* schema is skipped by the load: it is not among the loaded records, and a
\* warning was issued for it.
C6_InvalidRawSkipped ==
    Loaded =>
        \A f \in RecordFiles :
            ~validate_raw_repo(raw_dir[f])[1] =>
                /\ \A i \in 1..Len(run_repos) : run_repos[i] # raw_dir[f]
                /\ f \in warned

---------------------------------------------------------------------------
(* Persistence *)

\* C7: the dashboard file and the history snapshot hold what they held
\* when the run started until the dashboard is assembled from every
\* aggregator and has passed schema validation; a run whose dashboard
\* fails validation aborts with both files as they were.
C7_WriteAfterValidation ==
    /\ pc \in {"started", "loaded", "assembled", "validated", "aborted"} =>
           agg_file = before.agg_file /\ history_dir = before.history_dir
    /\ pc = "aborted" => ~validate_aggregated_dashboard(run_data)[1]
    /\ pc \in {"validated", "written", "done"} =>
           /\ run_data = Dashboard(run_repos, NOW, before.history_dir)
           /\ validate_aggregated_dashboard(run_data)[1]
    /\ pc = "written" => agg_file = Stored(run_data) /\ history_dir = before.history_dir
    /\ pc = "done" =>
           /\ agg_file = Stored(run_data)
           /\ history_dir = (NOW.day :> Stored(run_data)) @@ before.history_dir

\* C7 witness: a run aborted by validation after an earlier run had written
\* both files.
C7_Witness ==
    /\ pc = "aborted"
    /\ agg_file # None
    /\ history_dir # <<>>
    /\ ~validate_aggregated_dashboard(run_data)[1]

---------------------------------------------------------------------------
(* Vulnerability trend *)

TotalVulns(d) == Num(d[2].security[2].total_vulns)

---------------------------------------------------------------------------
(* Risk tiers *)

\* C9 (as claimed): the risk_level of every row of build_repo_table is the
\* tier calc_governance's classification gives the row's record, also when
\* fields such as gate_pass are absent.
C9_TableRiskIsGovernanceRisk ==
    fn = "build_repo_table" =>
        \A i \in 1..Len(arg) :
            \E j \in 1..Len(ret[2]) :
                /\ ret[2][j][2].name = DictGet(arg[i], "name", PyStr("Unknown"))
                /\ ret[2][j][2].risk_level = PyStr(governance_risk(arg[i]))

FailsGate(r) ==
    /\ "security" \in DOMAIN r[2]
    /\ "gate_pass" \in DOMAIN r[2].security[2]
    /\ r[2].security[2].gate_pass = PyBool(FALSE)

\* The tier of a record by the precedence of the claim.
Tier(r) ==
    IF SecurityCount(r, "critical") > 0 \/ SecurityCount(r, "secrets") > 0 \/ FailsGate(r)
    THEN "Critical"
    ELSE IF SecurityCount(r, "high") > 0 THEN "High"
    ELSE IF SecurityCount(r, "medium") > 0 THEN "Medium"
    ELSE "Low"

InTier(repos, tier) == Len(SelectSeq(WithoutArchived(repos), LAMBDA r: Tier(r) = tier))

\* C10: calc_governance puts every active repository in exactly one tier,
\* Critical (a critical vulnerability, an exposed secret or a failed gate)
\* before High before Medium before Low, and risk_critical, risk_high,
\* risk_medium and risk_low count the active repositories of each tier.
C10_TierCounts ==
    fn = "calc_governance" =>
        /\ Num(ret[2].risk_critical) = InTier(arg, "Critical") * Scale
        /\ Num(ret[2].risk_high) = InTier(arg, "High") * Scale
        /\ Num(ret[2].risk_medium) = InTier(arg, "Medium") * Scale
        /\ Num(ret[2].risk_low) = InTier(arg, "Low") * Scale
        /\ Num(ret[2].risk_critical) + Num(ret[2].risk_high) + Num(ret[2].risk_medium)
               + Num(ret[2].risk_low) = Len(WithoutArchived(arg)) * Scale

\* C10 witness: a repository with high and critical findings counted as
\* Critical beside one with a high finding only counted as High.
C10_Witness ==
    /\ fn = "calc_governance"
    /\ Num(ret[2].risk_critical) = Scale
    /\ Num(ret[2].risk_high) = Scale
    /\ \E i \in 1..Len(arg) :
           SecurityCount(arg[i], "critical") > 0 /\ SecurityCount(arg[i], "high") > 0

---------------------------------------------------------------------------
(* Repository table *)

Rows(res) == res[2]
RowName(row) == row[2].name[2]

\* The place of a tier in the order of the table.
TierRank(row) ==
    CASE row[2].risk_level[2] = "Critical" -> 1 [] row[2].risk_level[2] = "High" -> 2
      [] row[2].risk_level[2] = "Medium" -> 3 [] row[2].risk_level[2] = "Low" -> 4

\* The list s rearranged by the permutation p of its indices.
Permuted(s, p) == [i \in 1..Len(s) |-> s[p[i]]]

DistinctNames(repos) ==
    \A i, j \in 1..Len(repos) :
        DictGet(repos[i], "name", PyStr("Unknown")) = DictGet(repos[j], "name", PyStr("Unknown"))
            => i = j

\* C11: build_repo_table returns one row per input record, archived
\* records included, ordered by tier (Critical, High, Medium, Low) and by
\* name ascending within a tier; when the names are distinct every
\* permutation of the input gives the same table.
C11_TableOrder ==
    fn = "build_repo_table" =>
        LET n == Len(arg) IN
        /\ Len(Rows(ret)) = n
        /\ \E p \in Orders(1..n) :
               \A i \in 1..n : Rows(ret)[p[i]] = Rows(build_repo_table(<<arg[i]>>, NOW))[1]
        /\ \A j, k \in 1..n :
               j < k =>
                   \/ TierRank(Rows(ret)[j]) < TierRank(Rows(ret)[k])
                   \/ /\ TierRank(Rows(ret)[j]) = TierRank(Rows(ret)[k])
                      /\ ~StrLt(RowName(Rows(ret)[k]), RowName(Rows(ret)[j]))
        /\ DistinctNames(arg) =>
               \A p \in Orders(1..n) : build_repo_table(Permuted(arg, p), NOW) = ret

\* C11 witness: two records of one tier, one of them archived, handed over
\* in descending order of their names and returned in ascending order.
C11_Witness ==
    /\ fn = "build_repo_table"
    /\ Len(arg) = 2
    /\ IsArchived(arg[1]) /\ ~IsArchived(arg[2])
    /\ StrLt(arg[2][2].name[2], arg[1][2].name[2])
    /\ Len(Rows(ret)) = 2
    /\ TierRank(Rows(ret)[1]) = TierRank(Rows(ret)[2])
    /\ RowName(Rows(ret)[1]) = arg[2][2].name[2]
    /\ RowName(Rows(ret)[2]) = arg[1][2].name[2]

\* The timestamp the status of a record is derived from: updated_at, or
\* pushed_at for a record without updated_at; None when both are absent.
Stamp(r) ==
    IF "updated_at" \in DOMAIN r[2] THEN r[2].updated_at
    ELSE IF "pushed_at" \in DOMAIN r[2] THEN r[2].pushed_at
    ELSE None

\* A timestamp is well formed when it is an ISO 8601 instant with its
\* UTC offset; the days passed are whole days.
WellFormed(t) == TypeOf(t) = "str" /\ FromIso(t[2])[1] = "aware"
DaysSince(t, now) == now.day - FromIso(t[2])[2]

StatusOf(r, now) ==
    IF IsArchived(r) THEN "Archived"
    ELSE IF ~WellFormed(Stamp(r)) THEN "Active"
    ELSE IF DaysSince(Stamp(r), now) > 180 THEN "Inactive"
    ELSE IF DaysSince(Stamp(r), now) > 30 THEN "Stale"
    ELSE "Active"

\* C12 (as claimed): build_repo_table never fails on a timestamp and gives
\* every row its status: Archived if the archived flag is set, else
\* Inactive after more than 180 days since the last update, Stale after
\* more than 30, else Active; Active for a missing or malformed timestamp.
C12_StatusOfEveryRow ==
    fn = "build_repo_table" =>
        /\ TypeOf(ret) = "list"
        /\ Len(Rows(ret)) = Len(arg)
        /\ \A i \in 1..Len(arg) :
               \E j \in 1..Len(Rows(ret)) :
                   /\ Rows(ret)[j][2].name = DictGet(arg[i], "name", PyStr("Unknown"))
                   /\ Rows(ret)[j][2].status = PyStr(StatusOf(arg[i], NOW))

---------------------------------------------------------------------------
(* calc_ci *)

\* The active repositories that report has_ci.
HasCi(r) ==
    /\ "ci" \in DOMAIN r[2]
    /\ "has_ci" \in DOMAIN r[2].ci[2]
    /\ r[2].ci[2].has_ci = PyBool(TRUE)
CiEnabled(repos) == SelectSeq(WithoutArchived(repos), HasCi)

\* The positive success rates such repositories report, in tenths.
PositiveRate(r) ==
    /\ "success_rate" \in DOMAIN r[2].ci[2]
    /\ IsNumber(r[2].ci[2].success_rate)
    /\ Num(r[2].ci[2].success_rate) > 0
Rates(repos) ==
    LET reporting == SelectSeq(CiEnabled(repos), PositiveRate)
    IN  [i \in 1..Len(reporting) |-> Num(reporting[i][2].ci[2].success_rate)]

RECURSIVE Total(_)
Total(s) == IF s = <<>> THEN 0 ELSE Head(s) + Total(Tail(s))

\* C13 (as claimed): when no CI-enabled active repository reports a
\* positive success rate, calc_ci's success rate and failure rate are both
\* null; otherwise the failure rate is 100 minus the success rate.
C13_NullWithoutRates ==
    fn = "calc_ci" =>
        IF Rates(arg) = <<>>
        THEN ret[2].success_rate = None /\ ret[2].failure_rate = None
        ELSE Num(ret[2].failure_rate) = 100 * Scale - Num(ret[2].success_rate)

\* The runs a repository reports, 0 when absent.
Runs(r) == IF "runs_30d" \in DOMAIN r[2].ci[2] THEN Num(r[2].ci[2].runs_30d) ELSE 0

\* C14: calc_ci's adoption is the number of active repositories with CI
\* over the number of active repositories, as a percentage with one
\* decimal, and 0 without active repository; success_rate is the mean of
\* the positive success rates of the active repositories with CI, and
\* total_runs the sum of their runs: archived repositories and
\* repositories without CI contribute to neither.
C14_CiOverEnabledActive ==
    fn = "calc_ci" =>
        LET active == WithoutArchived(arg)
            enabled == CiEnabled(arg)
            rates == Rates(arg)
        IN  /\ Num(ret[2].adoption) =
                   IF Len(active) = 0 THEN 0
                   ELSE RoundDiv(Len(enabled) * 100 * Scale, Len(active))
            /\ rates # <<>> => Num(ret[2].success_rate) = RoundDiv(Total(rates), Len(rates))
            /\ Num(ret[2].total_runs) =
                   Total([i \in 1..Len(enabled) |-> Runs(enabled[i])])

\* C14 witness: of two active repositories with runs and a positive
\* success rate one has no CI; adoption is 50 %, and success rate and runs
\* are those of the other.
C14_Witness ==
    /\ fn = "calc_ci"
    /\ Len(arg) = 2
    /\ HasCi(arg[1]) /\ PositiveRate(arg[1]) /\ Runs(arg[1]) > 0 /\ ~IsArchived(arg[1])
    /\ ~IsArchived(arg[2]) /\ "ci" \in DOMAIN arg[2][2] /\ ~HasCi(arg[2])
    /\ PositiveRate(arg[2]) /\ Runs(arg[2]) > 0
    /\ Num(ret[2].success_rate) # Num(arg[2][2].ci[2].success_rate)
    /\ Num(ret[2].adoption) = 50 * Scale
    /\ Num(ret[2].success_rate) = Num(arg[1][2].ci[2].success_rate)
    /\ Num(ret[2].total_runs) = Runs(arg[1])

---------------------------------------------------------------------------
(* safe_avg *)

\* The elements of a list that are non-null and strictly positive, in tenths.
Counted(values) ==
    LET kept == SelectSeq(values, LAMBDA v: TypeOf(v) # "null" /\ Num(v) > 0)
    IN  [i \in 1..Len(kept) |-> Num(kept[i])]

\* r is the quotient sum / n rounded to a whole number (of tenths).
Rounded(r, sum, n) == 2 * r * n - 2 * sum <= n /\ 2 * sum - 2 * r * n <= n

\* C15: safe_avg returns null exactly when no element is non-null and
\* strictly positive (the empty list and lists of zeros included, never
\* zero), and otherwise the mean of exactly those elements rounded to one
\* decimal.
C15_SafeAvg ==
    fn = "safe_avg" =>
        LET counted == Counted(arg)
        IN  /\ ret = None <=> counted = <<>>
            /\ ret # None =>
                   /\ IsNumber(ret)
                   /\ Num(ret) # 0
                   /\ Rounded(Num(ret), Total(counted), Len(counted))

\* C15 witness: a list with a null, a zero and two positive elements whose
\* mean 1.5 is returned.
C15_Witness ==
    /\ fn = "safe_avg"
    /\ arg \in {<<None, PyInt(1), PyInt(2)>>, <<PyInt(0), PyInt(2), PyInt(1)>>}
    /\ Num(ret) = 15

---------------------------------------------------------------------------
(* calc_security *)

\* What a repository's security section holds under key: null when the
\* section or the key is absent.
SecurityValue(r, key) ==
    IF "security" \in DOMAIN r[2] /\ key \in DOMAIN r[2].security[2]
    THEN r[2].security[2][key] ELSE None

\* The resolution times of the active repositories.
MttrHours(repos) ==
    LET active == WithoutArchived(repos)
    IN  [i \in 1..Len(active) |-> SecurityValue(active[i], "security_mttr_hours")]

\* C16: calc_security's security_mttr is the mean, to one decimal, of the
\* positive security_mttr_hours of the active repositories, and null (never
\* zero) when no active repository reports a positive one.
C16_SecurityMttr ==
    fn = "calc_security" =>
        LET hours == Counted(MttrHours(arg))
            mttr == ret[2].security_mttr
        IN  /\ mttr # PyInt(0) /\ mttr # PyFloat(0)
            /\ mttr = None <=> hours = <<>>
            /\ mttr # None => Rounded(Num(mttr), Total(hours), Len(hours))

\* C16 witness: of two active repositories one resolved in 0 hours and one
\* in 24; the average is 24, the zero not counted.
C16_Witness ==
    /\ fn = "calc_security"
    /\ Len(arg) = 2
    /\ ~IsArchived(arg[1]) /\ ~IsArchived(arg[2])
    /\ SecurityValue(arg[1], "security_mttr_hours") = PyInt(0)
    /\ SecurityValue(arg[2], "security_mttr_hours") = PyInt(24)
    /\ ret[2].security_mttr = PyFloat(24 * Scale)

\* The indicator of a security section behind each adoption figure.
Indicators ==
    {<<"branch_protection", "branch_protection">>, <<"dependabot", "dependabot_adoption">>,
     <<"secret_scanning", "secret_scanning">>, <<"code_scanning", "code_scanning">>,
     <<"security_policy", "security_policy">>, <<"license", "license_compliance">>,
     <<"gate_pass", "gate_pass_rate">>}

\* The active repositories with the indicator set.
Adopters(repos, key) ==
    SelectSeq(WithoutArchived(repos), LAMBDA r: Truthy(SecurityValue(r, key)))

\* The active repositories without critical vulnerability.
WithinSla(repos) ==
    SelectSeq(WithoutArchived(repos), LAMBDA r: SecurityCount(r, "critical") = 0)

\* figure is count out of total as a percentage with one decimal, 0 when
\* total is 0.
PercentOf(figure, count, total) ==
    /\ IsNumber(figure)
    /\ Num(figure) >= 0 /\ Num(figure) <= 100 * Scale
    /\ IF total = 0 THEN Num(figure) = 0
       ELSE Rounded(Num(figure), count * 100 * Scale, total)

Severity(repos, key) ==
    LET active == WithoutArchived(repos)
    IN  Total([i \in 1..Len(active) |-> SecurityCount(active[i], key)])

\* C18: calc_security's critical_vulns, high_vulns, medium_vulns and
\* low_vulns are the sums of the per-repository counts over the active
\* repositories, and total_vulns is the sum of the four.
C18_VulnerabilitySums ==
    fn = "calc_security" =>
        /\ Num(ret[2].critical_vulns) = Severity(arg, "critical")
        /\ Num(ret[2].high_vulns) = Severity(arg, "high")
        /\ Num(ret[2].medium_vulns) = Severity(arg, "medium")
        /\ Num(ret[2].low_vulns) = Severity(arg, "low")
        /\ Num(ret[2].total_vulns) =
               Num(ret[2].critical_vulns) + Num(ret[2].high_vulns)
                   + Num(ret[2].medium_vulns) + Num(ret[2].low_vulns)

\* C18 witness: two active repositories with counts 1, 2, 4, 8 and
\* 0, 1, -, 3 give 1, 3, 4, 11 and a total of 19.
C18_Witness ==
    /\ fn = "calc_security"
    /\ Len(arg) = 2
    /\ ~IsArchived(arg[1]) /\ ~IsArchived(arg[2])
    /\ SecurityCount(arg[1], "low") = 8 * Scale
    /\ SecurityCount(arg[2], "low") = 3 * Scale
    /\ Num(ret[2].critical_vulns) = 1 * Scale
    /\ Num(ret[2].high_vulns) = 3 * Scale
    /\ Num(ret[2].medium_vulns) = 4 * Scale
    /\ Num(ret[2].low_vulns) = 11 * Scale
    /\ Num(ret[2].total_vulns) = 19 * Scale

---------------------------------------------------------------------------
(* Schema validation *)

\* The value has none of the types a schema entry allows.
WrongType(value, expected_type) ==
    CASE expected_type.kind = "schema" -> TypeOf(value) # "dict"
      [] expected_type.kind = "list" -> TypeOf(value) # "list"
      [] OTHER -> \A i \in 1..Len(expected_type.names) :
                      ~IsInstance(value, expected_type.names[i])

RECURSIVE Violations(_, _, _)
\* The paths of the fields of the schema, nested schemas included, that the
\* record lacks or holds with a wrong type.
Violations(data, schema, path) ==
    LET fields == {schema[i] : i \in 1..Len(schema)}
        Present(f) == f[1] \in DOMAIN data[2]
        violating == {f \in fields : ~Present(f) \/ WrongType(data[2][f[1]], f[2])}
        nested == {f \in fields \ violating : f[2].kind = "schema"}
    IN  {Append(path, f[1]) : f \in violating}
            \cup UNION {Violations(data[2][f[1]], f[2].schema, Append(path, f[1])) :
                            f \in nested}

\* An error "<dotted.path>: <problem>" below the root path.
WellFormedError(e) ==
    /\ Len(e) = 2
    /\ Len(e[1]) >= 2 /\ e[1][1] = "root"
    /\ \/ e[2] = <<"missing required field">>
       \/ Len(e[2]) = 4 /\ e[2][1] = "expected" /\ e[2][3] = "got"

\* C19: validate_dict_schema returns is_valid = true exactly when its error
\* list is empty, and for a record the list holds exactly one entry
\* "<dotted.path>: <problem>" for each field of the schema, nested schemas
\* included, that is missing or wrongly typed: no violation hides another.
C19_EveryViolationReported ==
    fn = "validate_dict_schema" =>
        LET data == arg[1]
            is_valid == ret[2][1]
            errors == ret[2][2]
            violations ==
                IF IsDict(data) THEN Violations(data, arg[2], <<"root">>) ELSE {}
        IN  /\ is_valid <=> errors = <<>>
            /\ IsDict(data) =>
                   /\ {errors[i][1] : i \in 1..Len(errors)} = violations
                   /\ Len(errors) = Cardinality(violations)
                   /\ \A i \in 1..Len(errors) : WellFormedError(errors[i])

\* C19 witness: a record that lacks one field, holds two with a wrong type
\* and has two violations in its nested record gets five errors.
C19_Witness ==
    /\ fn = "validate_dict_schema"
    /\ arg[2] = RecordSchema
    /\ IsDict(arg[1])
    /\ {<<"root", "name">>, <<"root", "count">>, <<"root", "tags">>,
        <<"root", "owner", "login">>, <<"root", "owner", "stars">>}
           = Violations(arg[1], arg[2], <<"root">>)
    /\ ret[2][1] = FALSE
    /\ Len(ret[2][2]) = 5

---------------------------------------------------------------------------
(* assert_raw_repo, assert_aggregated_dashboard *)

\* e is a raised ValueError whose message holds the label and every one of
\* the errors.
Raised(e, label, errors) ==
    /\ Len(e) = 3
    /\ e[1] = "ValueError"
    /\ \E i \in 1..Len(e[2]) : e[2][i] = label
    /\ \A j \in 1..Len(errors) : \E k \in 1..Len(e[3]) : e[3][k] = errors[j]

\* C20: assert_raw_repo and assert_aggregated_dashboard raise exactly when
\* validate_raw_repo, resp. validate_aggregated_dashboard, reports the
\* record invalid and return None otherwise; the message of the error
\* holds the label (the repository name, resp. "aggregated dashboard") and
\* every collected violation.
C20_AssertRaisesWhenInvalid ==
    /\ fn = "assert_raw_repo" =>
           LET res == validate_raw_repo(arg[1])
           IN  /\ Len(ret) = 2 <=> res[1]
               /\ res[1] => ret = None
               /\ ~res[1] => Raised(ret, arg[2], res[2])
    /\ fn = "assert_aggregated_dashboard" =>
           LET res == validate_aggregated_dashboard(arg[1])
           IN  /\ Len(ret) = 2 <=> res[1]
               /\ res[1] => ret = None
               /\ ~res[1] => Raised(ret, "aggregated dashboard", res[2])

\* C20 witness: assert_raw_repo raises for a record with four violations
\* under a name that is not the record's own, and the message holds that
\* name and the four violations.
C20_Witness ==
    /\ fn = "assert_raw_repo"
    /\ arg[2] = "org/repo"
    /\ Len(validate_raw_repo(arg[1])[2]) = 4
    /\ Len(ret) = 3
    /\ ret[2] = <<"repo", "org/repo">>
    /\ Len(ret[3]) = 4

---------------------------------------------------------------------------
(* Nullable fields *)

\* The fields the schemas declare nullable.
NullableRaw ==
    {<<"description">>, <<"language">>, <<"security", "license">>,
     <<"security", "security_mttr_hours">>}
NullableDashboard ==
    {<<"flow", "review_time_avg">>, <<"flow", "cycle_time_avg">>,
     <<"ci", "failure_rate">>, <<"ci", "avg_duration">>,
     <<"security", "vuln_trend">>, <<"security", "security_mttr">>}

\* The declared paths at which a record holds null.
NullAt(d, paths) ==
    {p \in paths :
        /\ p[1] \in DOMAIN d[2]
        /\ IF Len(p) = 1 THEN d[2][p[1]] = None
           ELSE /\ IsDict(d[2][p[1]])
                /\ p[2] \in DOMAIN d[2][p[1]][2]
                /\ d[2][p[1]][2][p[2]] = None}

\* The paths, below the root, of the errors that report a null value.
NullErrors(errors) ==
    {Tail(errors[i][1]) : i \in {j \in 1..Len(errors) :
                                   /\ Len(errors[j][2]) = 4
                                   /\ errors[j][2][4] = "NoneType"}}

\* The validator accepts null at the nullable paths, reports a type error
\* for null at every other declared path, and reports nothing else.
NullsJudged(result, d, paths, nullable) ==
    LET nulls == NullAt(d, paths)
        errors == result[2]
    IN  /\ NullErrors(errors) = nulls \ nullable
        /\ \A i \in 1..Len(errors) : Tail(errors[i][1]) \in nulls \ nullable
        /\ result[1] <=> nulls \subseteq nullable

\* C21: on a record that is complete and well typed but for null values,
\* validation accepts null exactly in description, language,
\* security.license and security.security_mttr_hours (raw) and in
\* flow.review_time_avg, flow.cycle_time_avg, ci.failure_rate,
\* ci.avg_duration, security.vuln_trend and security.security_mttr
\* (dashboard), and reports a type error for null in every other declared
\* field.
C21_NullOnlyWhereNullable ==
    /\ fn = "validate_raw_repo" /\ arg[1] \in NulledRawRepos =>
           NullsJudged(ret[2], arg[1],
                       DeclaredPaths(RAW_REPO_REQUIRED_FIELDS, RAW_REPO_NESTED_SCHEMAS),
                       NullableRaw)
    /\ fn = "validate_aggregated_dashboard" /\ arg[1] \in NulledDashboards =>
           NullsJudged(ret[2], arg[1],
                       DeclaredPaths(AGGREGATED_DASHBOARD_REQUIRED_FIELDS,
                                     AGGREGATED_DASHBOARD_NESTED_SCHEMAS),
                       NullableDashboard)

\* C21 witness: a raw record with null in every field of every section is
\* invalid, and its errors name every such field but license and
\* security_mttr_hours.
C21_Witness ==
    /\ fn = "validate_raw_repo"
    /\ arg[1] \in NulledRawRepos
    /\ arg[1][2].security[2].license = None
    /\ arg[1][2].security[2].security_mttr_hours = None
    /\ arg[1][2].security[2].critical = None
    /\ arg[1][2].ci[2].has_ci = None
    /\ ret[2][1] = FALSE
    /\ <<"security", "critical">> \in NullErrors(ret[2][2])
    /\ <<"security", "license">> \notin NullErrors(ret[2][2])

---------------------------------------------------------------------------
(* safe_get *)

RECURSIVE Walk(_, _, _)
\* The value at the end of a key path, and the default from the first key
\* that is absent or that is asked of a value that is no mapping.
Walk(d, keys, default) ==
    IF keys = <<>> THEN d
    ELSE IF IsDict(d) /\ Head(keys) \in DOMAIN d[2]
         THEN Walk(d[2][Head(keys)], Tail(keys), default)
         ELSE default

\* C22 (as claimed): safe_get returns the value found at the path when
\* every key is present, and the default as soon as a key is absent or an
\* intermediate value is no mapping, whatever the default is, without
\* looking up any later key.
C22_DefaultAtFirstMiss ==
    fn = "safe_get" => ret = Walk(arg[1], arg[2], arg[3])

---------------------------------------------------------------------------
(* Run identifier *)

\* C23 (as claimed): the run_id of the dashboard a run assembles differs
\* from the run_id of the snapshot that the last run before it persisted.
C23_RunIdUnique ==
    Assembled /\ before.persisted[1] = "snapshot" =>
        run_data[2].run_id # before.persisted[2].content[2].run_id

---------------------------------------------------------------------------
(* Aggregators leave the collection alone *)

\* Every aggregator and builder has run.
AllInvoked == DOMAIN ret[2] = {a[2] : a \in Aggregators}

---------------------------------------------------------------------------
(* load_repos *)

\* C25: load_repos never fails the run; it returns the content of every
\* file that has no "_" name and parses, each exactly once, and nothing
\* else, and reports the files that do not parse.
C25_LoadSkipsMetadataAndMalformed ==
    /\ pc = "started" => ENABLED LoadRepos
    /\ Loaded =>
           /\ \E order \in Orders(RecordFiles) :
                  run_repos = [i \in 1..Len(order) |-> raw_dir[order[i]]]
           /\ warned = {f \in DOMAIN raw_dir : f[1] # "_" /\ raw_dir[f] = Unparseable}

\* C25 witness: data/raw holds a "_" file, a file that does not parse and
\* one record; the load returns that record alone.
C25_Witness ==
    /\ pc = "loaded"
    /\ DOMAIN raw_dir = {FileA, FileB, FileGovernance}
    /\ raw_dir[FileA] = Unparseable
    /\ run_repos = <<raw_dir[FileB]>>
    /\ warned = {FileA}

---------------------------------------------------------------------------
(* get_paginated *)

\* C26 (as claimed): when every request is answered with 200, was_truncated
\* is true exactly when items of the result set were left unfetched, and
\* false whenever every item was returned.
C26_TruncatedIffCapped ==
    fn = "get_paginated" /\ (\A p \in DOMAIN arg[1].status : arg[1].status[p] = "200") =>
        (ret[2][2] <=> Len(ret[2][1]) < arg[1].total)

---------------------------------------------------------------------------
(* collect.main *)

\* Every file written in the run holds a record that passes the raw schema.
WrittenAfterGate ==
    \A name \in collector.written : validate_raw_repo(raw_dir[<<name>>])[1]

\* A repository whose collection or validation failed got no file in the
\* run and is counted in errors_count, and the repositories after it were
\* dealt with all the same.
FailuresCounted ==
    /\ collector.failed \cap collector.written = {}
    /\ collector.errors_count >= Cardinality(collector.failed)
    /\ collector.pc = "exited" /\ collector.repos # <<>> =>
           collector.failed \cup collector.written =
               {collector.repos[i].name :
                    i \in {j \in DOMAIN collector.repos : ~collector.repos[j].archived}}

\* C27 (as claimed): files are written only for records that passed
\* assert_raw_repo, failures are counted and do not stop the run, and the
\* exit status is non-zero exactly when errors_count is above 0.
C27_ExitStatusFromErrorsOnly ==
    /\ WrittenAfterGate
    /\ FailuresCounted
    /\ collector.pc = "exited" =>
           (collector.exit_status # 0 <=> collector.errors_count > 0)

\* C27 (amended): files are written only for records that passed
\* assert_raw_repo, failures are counted and do not stop the run; a run
\* that listed at least one repository exits with a non-zero status exactly
\* when errors_count is above 0, and a run that is not configured or lists
\* no repository exits with 1 whatever errors_count is.
C27_ExitStatusAmended ==
    /\ WrittenAfterGate
    /\ FailuresCounted
    /\ collector.pc = "exited" =>
           IF collector.repos = <<>>
           THEN collector.exit_status = 1
           ELSE collector.exit_status # 0 <=> collector.errors_count > 0

\* C27 witness: the first repository fails validation while data/raw still
\* holds its file of an earlier run, the second is written; the run ends
\* with errors_count 1 and exit status 1.
C27_Witness ==
    /\ collector.pc = "exited"
    /\ Len(collector.repos) = 2
    /\ collector.failed = {"a"}
    /\ collector.written = {collector.repos[2].name}
    /\ collector.repos[1].name = "a"
    /\ FileA \in DOMAIN raw_dir
    /\ raw_dir[FileA] = VulnerableRepo("a")
    /\ collector.errors_count = 1
    /\ collector.exit_status = 1

---------------------------------------------------------------------------
(* calc_governance: the counts add up *)

\* C28: in the result of calc_governance the four risk counts add up to
\* scanned_repos, scanned_repos and archived_repos add up to total_repos,
\* which is the length of the collection, and scan_coverage is scanned_repos
\* out of total_repos as a percentage (one decimal), 0 for the empty
\* collection.
C28_GovernanceCountsAddUp ==
    fn = "calc_governance" =>
        LET g == ret[2]
        IN  /\ Num(g.risk_critical) + Num(g.risk_high) + Num(g.risk_medium)
                   + Num(g.risk_low) = Num(g.scanned_repos)
            /\ Num(g.scanned_repos) + Num(g.archived_repos) = Num(g.total_repos)
            /\ Num(g.total_repos) = Len(arg) * Scale
            /\ PercentOf(g.scan_coverage, Num(g.scanned_repos) \div Scale,
                         Num(g.total_repos) \div Scale)
            /\ arg = <<>> => g.scan_coverage = PyInt(0)

\* C28 witness: one archived repository beside one active repository in the
\* Critical tier: one of two scanned, a coverage of 50.
C28_Witness ==
    /\ fn = "calc_governance"
    /\ Len(arg) = 2
    /\ Num(ret[2].archived_repos) = Scale
    /\ Num(ret[2].scanned_repos) = Scale
    /\ Num(ret[2].risk_critical) = Scale
    /\ Num(ret[2].scan_coverage) = 50 * Scale

---------------------------------------------------------------------------
(* Nested sections: optional in a raw record, required in the dashboard *)

\* The names after the root in the paths of the errors.
ErrorPaths(errors) == {Tail(errors[i][1]) : i \in 1..Len(errors)}

\* The sections of the schema that the record does not contain.
Absent(d, sections) == SectionNames(sections) \ DOMAIN d[2]

\* C29: validate_raw_repo reports nothing about a nested section the record
\* does not contain, so a record with well-typed top-level fields is valid
\* when the sections it contains are (whichever it omits), and the errors of
\* a section it contains are reported; validate_aggregated_dashboard
\* reports a missing required field for every absent dashboard section.
C29_SectionsOptionalInRawOnly ==
    /\ fn = "validate_raw_repo" /\ arg[1] \in SectionedRawRepos =>
           LET d == arg[1]
               absent == Absent(d, RAW_REPO_NESTED_SCHEMAS)
               present == SectionNames(RAW_REPO_NESTED_SCHEMAS) \ absent
               Sound(k) == \A f \in DOMAIN d[2][k][2] :
                               d[2][k][2][f] = None => <<k, f>> \in NullableRaw
           IN  /\ \A p \in ErrorPaths(ret[2][2]) : p[1] \notin absent
               /\ ret[2][1] <=> \A k \in present : Sound(k)
               /\ \A k \in present : Sound(k) <=>
                      ~\E p \in ErrorPaths(ret[2][2]) : p[1] = k
    /\ fn = "validate_aggregated_dashboard" /\ arg[1] \in SectionedDashboards =>
           /\ \A k \in Absent(arg[1], AGGREGATED_DASHBOARD_NESTED_SCHEMAS) :
                  \E i \in 1..Len(ret[2][2]) : ret[2][2][i] = Missing(<<"dashboard", k>>)
           /\ Absent(arg[1], AGGREGATED_DASHBOARD_NESTED_SCHEMAS) # {} => ~ret[2][1]

\* C29 witness (raw): a record with only its top-level fields is reported
\* valid with no error.
C29_Witness ==
    /\ fn = "validate_raw_repo"
    /\ arg[1] \in SectionedRawRepos
    /\ Absent(arg[1], RAW_REPO_NESTED_SCHEMAS) = SectionNames(RAW_REPO_NESTED_SCHEMAS)
    /\ ret[2] = <<TRUE, <<>> >>

\* C29 witness (dashboard): a dashboard with only its security section
\* absent is reported invalid with exactly the error of that section.
C29_DashboardWitness ==
    /\ fn = "validate_aggregated_dashboard"
    /\ arg[1] \in SectionedDashboards
    /\ Absent(arg[1], AGGREGATED_DASHBOARD_NESTED_SCHEMAS) = {"security"}
    /\ ret[2] = <<FALSE, << Missing(<<"dashboard", "security">>) >> >>

---------------------------------------------------------------------------
(* aggregate() on validated records *)

\* A value of the last type a schema entry allows: a float for a number,
\* null for a nullable field.
SampleOfLast(expected_type) ==
    IF expected_type.kind = "list" THEN PyList(<<>>)
    ELSE LET last == expected_type.names[Len(expected_type.names)]
         IN  CASE last = "float" -> PyFloat(15)
               [] last = "NoneType" -> None
               [] OTHER -> SampleOf(expected_type)

\* The eight nested sections of a raw record, filled with the first or with
\* the last type each field allows.
RawSections(Sample(_)) ==
    LET sections == RAW_REPO_NESTED_SCHEMAS
        Section(k) == sections[CHOOSE i \in 1..Len(sections) : sections[i][1] = k][2]
        Type(k, f) == Section(k)[CHOOSE j \in 1..Len(Section(k)) : Section(k)[j][1] = f][2]
    IN  [k \in SectionNames(sections) |->
             PyDict([f \in {Section(k)[j][1] : j \in 1..Len(Section(k))} |->
                         Sample(Type(k, f))])]

\* Records that pass validate_raw_repo: without nested section, with the
\* security section only, with every section, with floats and nulls where
\* the schema allows them, and archived.
BareRepo(name) == PyDict(RawTop(name))
FullRepo(name) == PyDict(RawTop(name) @@ RawSections(SampleOf))
FractionalRepo(name) ==
    PyDict([language |-> None] @@ RawTop(name) @@ RawSections(SampleOfLast))
ArchivedRepo(name) == PyDict([is_archived |-> PyBool(TRUE)] @@ FullRepo(name)[2])

ValidatedDirs ==
    {a @@ b :
        a \in {<<>>} \cup {FileA :> c : c \in {BareRepo("a"), CleanRepo("a"), FullRepo("a"),
                                                FractionalRepo("a")}},
        b \in {<<>>} \cup {FileB :> c : c \in {VulnerableRepo("b"), ArchivedRepo("b")}}}

\* A process starts on a data/raw directory the collector filled with
\* records that passed assert_raw_repo.
StartValidatedRun ==
    /\ pc \in {"idle", "done", "aborted"}
    /\ runs < MaxRuns
    /\ runs' = runs + 1
    /\ \E n \in Nows : NotBefore(n, NOW) /\ NOW' = n
    /\ raw_dir' \in ValidatedDirs
    /\ pc' = "started"
    /\ run_repos' = <<>>
    /\ run_data' = None
    /\ warned' = {}
    /\ before' = [agg_file |-> agg_file, history_dir |-> history_dir,
                  persisted |-> persisted]
    /\ UNCHANGED <<calcVars, collector, history_dir, agg_file, persisted>>

NextValidated ==
    \/ StartValidatedRun
    \/ LoadRepos
    \/ Assemble
    \/ Validate
    \/ WriteAggregated
    \/ WriteHistory

SpecValidated == Init /\ [][NextValidated]_vars

\* Every record of the collection passes validate_raw_repo.
AllValid(repos) == \A i \in 1..Len(repos) : validate_raw_repo(repos[i])[1]

\* C30: when every loaded record passes validate_raw_repo, the dashboard
\* that aggregate() assembles passes validate_aggregated_dashboard, and the
\* run is not aborted by the schema check.
C30_ValidInValidOut ==
    Assembled /\ AllValid(run_repos) =>
        /\ validate_aggregated_dashboard(run_data)[1]
        /\ pc # "aborted"

\* C30 witness: a run on a record without nested section and an archived
\* record has passed the schema check and written its dashboard, whose CI
\* success rate is the default 0 and whose flow averages are null.
C30_Witness ==
    /\ pc = "done"
    /\ Len(run_repos) = 2
    /\ \E i \in 1..2 : run_repos[i] = BareRepo("a")
    /\ \E i \in 1..2 : run_repos[i] = ArchivedRepo("b")
    /\ AllValid(run_repos)
    /\ run_data[2].ci[2].success_rate = PyInt(0)
    /\ run_data[2].flow[2].review_time_avg = None
    /\ agg_file = Stored(run_data)

=============================================================================
